---- MODULE Spec2Model ----
(***************************************************************************)
(* A model of the photography utilities: the R2 mirror (sync_to_r2.py),    *)
(* the metadata filter matcher (photo_metadata.py), the ingester           *)
(* (ingest_photos.py), the filter-based collection sync                    *)
(* (sync_collection.py), the scripts that curate a collection by hand      *)
(* (add_to_collection.py, add_to_portfolio.py, add_photos.py), the reading *)
(* of embedded XMP and EXIF values, and the paginated bucket listing.      *)
(*                                                                         *)
(* Strings are sequences of one-character strings, so that prefix tests,   *)
(* stripping, splitting and lowercasing are computed, not assumed.         *)
(* Times are whole seconds.                                                *)
(***************************************************************************)
EXTENDS Integers, Sequences, FiniteSets, TLC

(***************************************************************************)
(* Bounds of the model.                                                    *)
(***************************************************************************)
MaxTime == 2

Times == 0 .. MaxTime

(***************************************************************************)
(* String helpers (Python str methods on character sequences).             *)
(***************************************************************************)
StartsWith(s, p) == Len(p) <= Len(s) /\ SubSeq(s, 1, Len(p)) = p

RECURSIVE RStrip(_, _)
RStrip(s, c) ==
    IF s # <<>> /\ s[Len(s)] = c THEN RStrip(SubSeq(s, 1, Len(s) - 1), c) ELSE s

\* Path.name: the part after the last "/"
RECURSIVE PathName(_)
PathName(p) ==
    IF p = <<>> THEN <<>>
    ELSE IF p[Len(p)] = "/" THEN <<>>
    ELSE PathName(SubSeq(p, 1, Len(p) - 1)) \o <<p[Len(p)]>>

Range(s) == {s[n] : n \in 1 .. Len(s)}

\* all orderings of a finite set, as sequences without repetition
Orderings(S) ==
    {s \in [1 .. Cardinality(S) -> S] : \A m, n \in 1 .. Cardinality(S) : m # n => s[m] # s[n]}

(***************************************************************************)
(* The mirror: sync_to_r2.py                                               *)
(***************************************************************************)
VARIABLES
    localTree,    \* the files under local_dir: relative path -> [size, mtime]
    dirExists,    \* whether local_dir exists
    remote,       \* the bucket: key -> [Size, LastModified]
    r2_prefix,    \* main's r2_prefix argument
    pc,           \* position in main / sync_directory
    local_files,  \* sync_directory's local_files, an ordered dict: seq of [key, path, size, mtime]
    r2_objects,   \* sync_directory's r2_objects, an ordered dict: seq of [key, Size, LastModified]
    to_upload,    \* seq of [key, reason]
    to_delete,    \* seq of keys
    idx,          \* position of the running for loop in its list
    uploaded,     \* the uploaded counter
    deleted,      \* the deleted counter
    log,          \* the calls issued so far, in order: seq of [op, key, ok]
    exit_code     \* the process's exit status, -1 while running

syncVars == <<localTree, dirExists, remote, r2_prefix, pc, local_files, r2_objects,
              to_upload, to_delete, idx, uploaded, deleted, log, exit_code>>

(***************************************************************************)
(* The filter matcher: photo_metadata.py                                   *)
(***************************************************************************)
VARIABLES
    xmp_data,     \* what _read_xmp_from_jpg returned: a dict, empty for None
    exif_data,    \* what _read_exif_data returned: a dict, empty for None
    filters,      \* the filters argument: [given, map], given = FALSE for None
    metadata,     \* the PhotoMetadata get_metadata built
    result,       \* what matches_filters returned: "True", "False", or the exception raised
    mpc           \* position: "idle", "read", "built", "matched"

matchVars == <<xmp_data, exif_data, filters, metadata, result, mpc>>

(***************************************************************************)
(* The ingester: ingest_photos.py                                          *)
(***************************************************************************)
VARIABLES
    location,        \* sanitize_location's argument: None or Some(string)
    sanitized,       \* what sanitize_location returned: None or Some(string)
    photo_exists,    \* whether photo_path exists when ingest_photo reads it
    dry_run,         \* ingest_photo's dry_run argument
    dest_exists,     \* whether a file already is at the destination
    move_fails,      \* whether mkdir or shutil.move raises
    location_parts,  \* ingest_photo's location_parts: what sanitize_location returned, in order
    ingested,        \* how ingest_photo ended: [raised, success, message, dest_path, replaced]
    moved,           \* whether the photo now is at dest_path
    ipc              \* position: "idle", "call", "returned", "ingest", "ingested"

ingestVars == <<location, sanitized, photo_exists, dry_run, dest_exists, move_fails,
                location_parts, ingested, moved, ipc>>

(***************************************************************************)
(* The filter-based collection sync: sync_collection.py                    *)
(***************************************************************************)
VARIABLES
    photos_tree,       \* the files under photos/: path relative to photos/ -> [xmp, exif]
    photos_dir_exists, \* whether photos/ exists
    collection_files,  \* the collection files, in sorted order: seq of [filters, photos, cover_path]
    original_files,    \* the collection files as they were when main started
    args_all,          \* whether main was given --all, or the name of the first collection
    returned,          \* what sync_single_collection returned, call by call
    synced_count,      \* main's synced_count
    skipped_count,     \* main's skipped_count
    cpc                \* position: "idle", "sync", "done", "ValueError"

collectionVars == <<photos_tree, photos_dir_exists, collection_files, original_files,
                    args_all, returned, synced_count, skipped_count, cpc>>

(***************************************************************************)
(* Curating one collection: add_to_collection.py, add_to_portfolio.py,     *)
(* add_photos.py, next to sync_collection.py                               *)
(***************************************************************************)
VARIABLES
    argv,          \* how many paths of the command line main still has to process
    loaded,        \* the collection the running script holds in memory
    before,        \* that collection as it was before the last step
    step,          \* the last step: [op, path, returned, added_count, removed_count, cover_updated]
    added_photos,  \* add_to_collection's added_photos, as a count
    kpc            \* position: "idle", "ready" between two scripts, or the script whose loop runs

curateVars == <<argv, loaded, before, step, added_photos, kpc>>

(***************************************************************************)
(* Reading embedded metadata: _read_xmp_from_jpg, _read_exif_data          *)
(***************************************************************************)
VARIABLES
    content,       \* the bytes of the file
    xmp_packet,    \* _read_xmp_from_jpg's xmp_data: [found, text]
    exif_main,     \* the tags of img.getexif(), in order: seq of [tag, value]
    exif_ifd,      \* the tags of exif.get_ifd(0x8769), in order
    xpc            \* position: "idle", "open", "sliced", "exif", "read"

parseVars == <<content, xmp_packet, exif_main, exif_ifd, xpc>>

(***************************************************************************)
(* The paginated listing: list_r2_objects                                  *)
(***************************************************************************)
VARIABLES
    continuation_token, \* list_r2_objects's continuation_token: [some, val]
    objects,            \* list_r2_objects's objects, an ordered dict: seq of [key, Size, LastModified]
    requests,           \* the list_objects_v2 calls made, as their tokens in order
    lpc                 \* position: "idle", "listing", "returned"

listVars == <<continuation_token, objects, requests, lpc>>

\* the files the model's local directory may hold
PathA == <<"a">>
PathB == <<"s", "/", "b">>
PathHidden == <<".", "h">>
KeyOutside == <<"x">>

Prefixes == {<<>>, <<"s">>, <<"s", "/">>}

\* lines 189-193: prefix = '' if r2_prefix == '' else r2_prefix.rstrip('/') + '/'
NormalizePrefix(p) == IF p = <<>> THEN <<>> ELSE RStrip(p, "/") \o <<"/">>

Buckets(p) ==
    LET pre == NormalizePrefix(p)
        ka == pre \o PathA
        kb == pre \o PathB
        kc == pre \o <<"c">>
    IN {b \in UNION {[D -> [Size : {1}, LastModified : Times]] :
                        D \in SUBSET {ka, kb, kc, KeyOutside}} :
            /\ kc \in DOMAIN b => b[kc] = [Size |-> 1, LastModified |-> 0]
            /\ KeyOutside \in DOMAIN b => b[KeyOutside] = [Size |-> 1, LastModified |-> 0]}


\* the characters of the model's keys and paths, in code-point order
Chars ==
    <<".", "/", "B", "G", "J", "P", "a", "b", "c", "d", "e", "g", "h", "j", "n", "o", "p",
      "r", "s", "t", "x", "z">>

CharRank(c) == CHOOSE n \in 1 .. Len(Chars) : Chars[n] = c

RECURSIVE LexLess(_, _)
LexLess(s, t) ==
    IF t = <<>> THEN FALSE
    ELSE IF s = <<>> THEN TRUE
    ELSE IF Head(s) = Head(t) THEN LexLess(Tail(s), Tail(t))
    ELSE CharRank(Head(s)) < CharRank(Head(t))

\* the keys of S in the order the store lists them
RECURSIVE SortedKeys(_)
SortedKeys(S) ==
    IF S = {} THEN <<>>
    ELSE LET least == CHOOSE k \in S : \A j \in S \ {k} : LexLess(k, j)
         IN <<least>> \o SortedKeys(S \ {least})

\* ordered-dict helpers
KeysOf(d) == {d[n].key : n \in 1 .. Len(d)}
Get(d, k) == d[CHOOSE n \in 1 .. Len(d) : d[n].key = k]

IsScannedDotfilesToo(path) == TRUE

\* get_local_files, line 132: a file whose name starts with '.' is skipped
IsScanned(path) == ~StartsWith(PathName(path), <<".">>)

\* get_local_files: the possible results, one per enumeration order of rglob
GetLocalFiles(tree, prefix) ==
    LET found == {p \in DOMAIN tree : IsScanned(p)}
    IN {[n \in 1 .. Len(o) |->
            [key |-> prefix \o o[n], path |-> o[n],
             size |-> tree[o[n]].size, mtime |-> tree[o[n]].mtime]] : o \in Orderings(found)}

\* list_r2_objects: every object whose key starts with the prefix
ListR2Objects(bucket, prefix) ==
    LET o == SortedKeys({k \in DOMAIN bucket : StartsWith(k, prefix)})
    IN [n \in 1 .. Len(o) |->
            [key |-> o[n], Size |-> bucket[o[n]].Size,
             LastModified |-> bucket[o[n]].LastModified]]

\* line 236: timedelta(seconds=1)
Tolerance == 1

IsNewerOrEqual(local_modified, r2_modified) == local_modified >= r2_modified + Tolerance

IsNewerEitherWay(local_modified, r2_modified) ==
    \/ local_modified > r2_modified + Tolerance
    \/ r2_modified > local_modified + Tolerance

\* line 236: local_modified > r2_modified + timedelta(seconds=1)
IsNewer(local_modified, r2_modified) == local_modified > r2_modified + Tolerance

\* lines 225-237: the upload plan, in the order of local_files
RECURSIVE ToUpload(_, _)
ToUpload(lf, r2) ==
    IF lf = <<>> THEN <<>>
    ELSE LET e == Head(lf)
             this == IF e.key \notin KeysOf(r2)
                         THEN <<[key |-> e.key, reason |-> "new"]>>
                     ELSE IF IsNewer(e.mtime, Get(r2, e.key).LastModified)
                         THEN <<[key |-> e.key, reason |-> "updated"]>>
                     ELSE <<>>
         IN this \o ToUpload(Tail(lf), r2)

IsStaleByPath(r2_key, lf) == r2_key \notin {lf[n].path : n \in 1 .. Len(lf)}

\* line 241: r2_key not in local_files
IsStale(r2_key, lf) == r2_key \notin KeysOf(lf)

\* lines 240-242: the delete plan, in the order of r2_objects
RECURSIVE ToDelete(_, _)
ToDelete(lf, r2) ==
    IF r2 = <<>> THEN <<>>
    ELSE (IF IsStale(Head(r2).key, lf) THEN <<Head(r2).key>> ELSE <<>>)
            \o ToDelete(lf, Tail(r2))

Entry(op, key, ok) == [op |-> op, key |-> key, ok |-> ok]

prefix == NormalizePrefix(r2_prefix)

Exit(code) == pc' = "exited" /\ exit_code' = code

ScanLocalSkipsListing ==
    /\ UNCHANGED <<matchVars, ingestVars, collectionVars, curateVars, parseVars, listVars>>
    /\ pc = "scan"
    /\ IF dirExists
         THEN /\ local_files' \in GetLocalFiles(localTree, prefix)
              /\ log' = Append(log, Entry("scan", <<>>, TRUE))
              /\ pc' = "diff"
              /\ UNCHANGED exit_code
         ELSE /\ Exit(1)
              /\ UNCHANGED <<local_files, log>>
    /\ UNCHANGED <<localTree, dirExists, remote, r2_prefix, r2_objects, to_upload,
                   to_delete, idx, uploaded, deleted>>

\* lines 197-199 and get_local_files: sys.exit(1) when the directory is missing
ScanLocal ==
    /\ UNCHANGED <<matchVars, ingestVars, collectionVars, curateVars, parseVars, listVars>>
    /\ pc = "scan"
    /\ IF dirExists
         THEN /\ local_files' \in GetLocalFiles(localTree, prefix)
              /\ log' = Append(log, Entry("scan", <<>>, TRUE))
              /\ pc' = "list"
              /\ UNCHANGED exit_code
         ELSE /\ Exit(1)
              /\ UNCHANGED <<local_files, log>>
    /\ UNCHANGED <<localTree, dirExists, remote, r2_prefix, r2_objects, to_upload,
                   to_delete, idx, uploaded, deleted>>

\* lines 208-210: the listing succeeds, or the client raises and main exits 1
ListRemote ==
    /\ UNCHANGED <<matchVars, ingestVars, collectionVars, curateVars, parseVars, listVars>>
    /\ pc = "list"
    /\ \E ok \in BOOLEAN :
         /\ log' = Append(log, Entry("list", <<>>, ok))
         /\ IF ok
              THEN /\ r2_objects' = ListR2Objects(remote, prefix)
                   /\ pc' = "diff"
                   /\ UNCHANGED exit_code
              ELSE /\ Exit(1)
                   /\ UNCHANGED r2_objects
    /\ UNCHANGED <<localTree, dirExists, remote, r2_prefix, local_files, to_upload,
                   to_delete, idx, uploaded, deleted>>

\* lines 220-253: the plan; an empty plan returns at once
ComputePlan ==
    /\ UNCHANGED <<matchVars, ingestVars, collectionVars, curateVars, parseVars, listVars>>
    /\ pc = "diff"
    /\ to_upload' = ToUpload(local_files, r2_objects)
    /\ to_delete' = ToDelete(local_files, r2_objects)
    /\ log' = Append(log, Entry("diff", <<>>, TRUE))
    /\ IF to_upload' = <<>> /\ to_delete' = <<>>
         THEN Exit(0) /\ UNCHANGED idx
         ELSE pc' = "upload" /\ idx' = 1 /\ UNCHANGED exit_code
    /\ UNCHANGED <<localTree, dirExists, remote, r2_prefix, local_files, r2_objects,
                   uploaded, deleted>>

\* upload_file: put_object stores the file's bytes under the key; the store
\* stamps the object with its own clock
PutObject(bucket, key, size, now) ==
    [k \in DOMAIN bucket \cup {key} |->
        IF k = key THEN [Size |-> size, LastModified |-> now] ELSE bucket[k]]

DeleteObjectKeeps(bucket, key) == bucket

\* delete_file: delete_object removes the key
DeleteObject(bucket, key) == [k \in DOMAIN bucket \ {key} |-> bucket[k]]

\* lines 259-266, 275-279: a for loop goes on to its next item whether or not
\* the call succeeded (upload_file and delete_file catch the exception)
NextIndexStopOnFailure(i, ok, n) == IF ok THEN i + 1 ELSE n + 1

NextIndex(i, ok, n) == i + 1

\* lines 265-266, 278-279: the counter counts the calls that returned True
Count(c, ok) == IF ok THEN c + 1 ELSE c

\* lines 259-266: one iteration of the upload loop

UploadOne ==
    /\ UNCHANGED <<matchVars, ingestVars, collectionVars, curateVars, parseVars, listVars>>
    /\ pc = "upload"
    /\ idx <= Len(to_upload)
    /\ LET key == to_upload[idx].key
           meta == Get(local_files, key)
       IN \E ok \in BOOLEAN :
            /\ log' = Append(log, Entry("upload", key, ok))
            /\ IF ok
                 THEN \E now \in Times :
                        remote' = PutObject(remote, key, localTree[meta.path].size, now)
                 ELSE UNCHANGED remote
            /\ uploaded' = Count(uploaded, ok)
            /\ idx' = NextIndex(idx, ok, Len(to_upload))
    /\ UNCHANGED <<localTree, dirExists, r2_prefix, pc, local_files, r2_objects,
                   to_upload, to_delete, deleted, exit_code>>

\* lines 268-272: the upload loop is over
UploadsDone ==
    /\ UNCHANGED <<matchVars, ingestVars, collectionVars, curateVars, parseVars, listVars>>
    /\ pc = "upload"
    /\ idx > Len(to_upload)
    /\ pc' = "delete"
    /\ idx' = 1
    /\ UNCHANGED <<localTree, dirExists, remote, r2_prefix, local_files, r2_objects,
                   to_upload, to_delete, uploaded, deleted, log, exit_code>>

\* lines 275-279: one iteration of the delete loop
DeleteOne ==
    /\ UNCHANGED <<matchVars, ingestVars, collectionVars, curateVars, parseVars, listVars>>
    /\ pc = "delete"
    /\ idx <= Len(to_delete)
    /\ LET key == to_delete[idx]
       IN \E ok \in BOOLEAN :
            /\ log' = Append(log, Entry("delete", key, ok))
            /\ remote' = IF ok THEN DeleteObject(remote, key) ELSE remote
            /\ deleted' = Count(deleted, ok)
            /\ idx' = NextIndex(idx, ok, Len(to_delete))
    /\ UNCHANGED <<localTree, dirExists, r2_prefix, pc, local_files, r2_objects,
                   to_upload, to_delete, uploaded, exit_code>>

\* lines 281-285 and main: sync_directory returns and the process ends
DeletesDone ==
    /\ UNCHANGED <<matchVars, ingestVars, collectionVars, curateVars, parseVars, listVars>>
    /\ pc = "delete"
    /\ idx > Len(to_delete)
    /\ Exit(0)
    /\ UNCHANGED <<localTree, dirExists, remote, r2_prefix, local_files, r2_objects,
                   to_upload, to_delete, idx, uploaded, deleted, log>>

\* main, lines 313-315: KeyboardInterrupt at any point of the run
Interrupt ==
    /\ UNCHANGED <<matchVars, ingestVars, collectionVars, curateVars, parseVars, listVars>>
    /\ pc \in {"scan", "list", "diff", "upload", "delete"}
    /\ Exit(1)
    /\ UNCHANGED <<localTree, dirExists, remote, r2_prefix, local_files, r2_objects,
                   to_upload, to_delete, idx, uploaded, deleted, log>>

SyncNext ==
    \/ ScanLocal
    \/ ListRemote
    \/ ComputePlan
    \/ UploadOne
    \/ UploadsDone
    \/ DeleteOne
    \/ DeletesDone
    \/ Interrupt

vars == <<syncVars, matchVars, ingestVars, collectionVars, curateVars, parseVars, listVars>>

\* the matcher at rest, while the mirror runs
MatchIdle ==
    /\ xmp_data = <<>>
    /\ exif_data = <<>>
    /\ filters = [given |-> FALSE, map |-> <<>>]
    /\ metadata = <<>>
    /\ result = "none"
    /\ mpc = "idle"

NotIngested ==
    [raised |-> "none", success |-> FALSE, message |-> "none",
     dest_path |-> [some |-> FALSE], replaced |-> FALSE]

\* ingest_photo not called
IngestPhotoIdle ==
    /\ photo_exists = FALSE
    /\ dry_run = FALSE
    /\ dest_exists = FALSE
    /\ move_fails = FALSE
    /\ location_parts = <<>>
    /\ ingested = NotIngested
    /\ moved = FALSE

IngestIdle ==
    /\ location = [some |-> FALSE]
    /\ sanitized = [some |-> FALSE]
    /\ IngestPhotoIdle
    /\ ipc = "idle"

CollectionIdle ==
    /\ photos_tree = <<>>
    /\ photos_dir_exists = FALSE
    /\ collection_files = <<>>
    /\ original_files = <<>>
    /\ args_all = FALSE
    /\ returned = <<>>
    /\ synced_count = 0
    /\ skipped_count = 0
    /\ cpc = "idle"

NothingInMemory ==
    [filters |-> [some |-> FALSE], photos |-> <<>>, cover_path |-> [some |-> FALSE]]

NoStep ==
    [op |-> "none", path |-> <<>>, returned |-> "none", added_count |-> 0,
     removed_count |-> 0, cover_updated |-> FALSE]

CurateIdle ==
    /\ argv = 0
    /\ loaded = NothingInMemory
    /\ before = NothingInMemory
    /\ step = NoStep
    /\ added_photos = 0
    /\ kpc = "idle"

ParseIdle ==
    /\ content = <<>>
    /\ xmp_packet = [found |-> FALSE, text |-> <<>>]
    /\ exif_main = <<>>
    /\ exif_ifd = <<>>
    /\ xpc = "idle"

ListIdle ==
    /\ continuation_token = [some |-> FALSE]
    /\ objects = <<>>
    /\ requests = <<>>
    /\ lpc = "idle"

\* the scripts of the later sections, not running
OthersIdle == CurateIdle /\ ParseIdle /\ ListIdle

Init ==
    LET
        \* PathA is two bytes long locally and one byte long in the bucket; the other
        \* files have the same size on both sides
        LocalTrees ==
            {t \in UNION {[D -> [size : {1, 2}, mtime : Times]] : D \in SUBSET {PathA, PathB, PathHidden}} :
                /\ PathA \in DOMAIN t => t[PathA].size = 2
                /\ PathB \in DOMAIN t => t[PathB].size = 1
                /\ PathHidden \in DOMAIN t => t[PathHidden] = [size |-> 1, mtime |-> 0]}
    IN
    /\ r2_prefix \in Prefixes
    /\ dirExists \in BOOLEAN
    /\ localTree \in LocalTrees
    /\ ~dirExists => localTree = <<>>
    /\ remote \in Buckets(r2_prefix)
    /\ pc = "scan"
    /\ local_files = <<>>
    /\ r2_objects = <<>>
    /\ to_upload = <<>>
    /\ to_delete = <<>>
    /\ idx = 0
    /\ uploaded = 0
    /\ deleted = 0
    /\ log = <<>>
    /\ exit_code = -1
    /\ MatchIdle
    /\ IngestIdle
    /\ CollectionIdle
    /\ OthersIdle

Next == SyncNext

Spec == Init /\ [][Next]_vars

(***************************************************************************)
(* Properties of the mirror.                                               *)
(***************************************************************************)
\* the plan of this run has been computed
PlanComputed == \E n \in 1 .. Len(log) : log[n].op = "diff"

\* sync_directory returned normally
Completed == pc = "exited" /\ exit_code = 0

AllSucceeded == \A n \in 1 .. Len(log) : log[n].ok

Planned(key, reason) == \E n \in 1 .. Len(to_upload) : to_upload[n] = [key |-> key, reason |-> reason]

OpsLogged(op) == SelectSeq(log, LAMBDA e : e.op = op)

\* the keys whose upload (op = "upload") or delete (op = "delete") has succeeded
Done(op) == {log[n].key : n \in {m \in 1 .. Len(log) : log[m].op = op /\ log[m].ok}}

\* C1: for every key of the local snapshot the upload plan holds (k, "new")
\* iff k is not in the remote listing, (k, "updated") iff k is listed and the
\* local mtime is more than one second past LastModified, and nothing for k
\* otherwise; the sizes play no part.
C1_UploadPlan ==
    PlanComputed =>
        /\ \A n \in 1 .. Len(local_files) :
            LET k == local_files[n].key
                listed == \E m \in 1 .. Len(r2_objects) : r2_objects[m].key = k
                ahead == \E m \in 1 .. Len(r2_objects) :
                            /\ r2_objects[m].key = k
                            /\ local_files[n].mtime - r2_objects[m].LastModified > 1
            IN /\ Planned(k, "new") <=> ~listed
               /\ Planned(k, "updated") <=> ahead
               /\ Cardinality({m \in 1 .. Len(to_upload) : to_upload[m].key = k}) <= 1
        /\ \A m \in 1 .. Len(to_upload) :
            /\ to_upload[m].key \in KeysOf(local_files)
            /\ to_upload[m].reason \in {"new", "updated"}

\* a plan with an updated key, and a key of another size than its remote copy
\* that is one second ahead and left alone
C1_Witness ==
    /\ PlanComputed
    /\ \E n \in 1 .. Len(to_upload) : to_upload[n].reason = "updated"
    /\ \E n \in 1 .. Len(local_files), m \in 1 .. Len(r2_objects) :
        /\ local_files[n].key = r2_objects[m].key
        /\ local_files[n].size # r2_objects[m].Size
        /\ local_files[n].mtime = r2_objects[m].LastModified + 1
        /\ ~Planned(local_files[n].key, "new")
        /\ ~Planned(local_files[n].key, "updated")

\* C2: the delete plan is exactly the listed remote keys that the local
\* snapshot lacks, each once, whatever their size and time; a key present
\* locally is never in it.
C2_DeletePlan ==
    PlanComputed =>
        /\ Range(to_delete) =
              {r2_objects[m].key : m \in 1 .. Len(r2_objects)}
                 \ {local_files[n].key : n \in 1 .. Len(local_files)}
        /\ \A m, n \in 1 .. Len(to_delete) : m # n => to_delete[m] # to_delete[n]
        /\ \A n \in 1 .. Len(local_files) : local_files[n].key \notin Range(to_delete)

\* two keys to delete, and a listed key that is newer than its local file and kept
C2_Witness ==
    /\ PlanComputed
    /\ Len(to_delete) >= 2
    /\ \E n \in 1 .. Len(local_files), m \in 1 .. Len(r2_objects) :
        /\ local_files[n].key = r2_objects[m].key
        /\ local_files[n].mtime < r2_objects[m].LastModified
        /\ Len(r2_objects[m].key) > Len(local_files[n].path)

\* every upload of this run left an object stamped no earlier than the file's mtime
StampsNotEarlier ==
    \A k \in Done("upload") :
        k \in DOMAIN remote /\ remote[k].LastModified >= Get(local_files, k).mtime

\* the plan a diff of the same local snapshot against the store as it is now gives
SecondUpload == ToUpload(local_files, ListR2Objects(remote, prefix))
SecondDelete == ToDelete(local_files, ListR2Objects(remote, prefix))

\* C3: once every upload and delete of the plan has succeeded, each upload
\* stamped no earlier than the local mtime, a second diff of the same local
\* snapshot against the updated store is empty.
C3_SecondDiffEmpty ==
    (Completed /\ AllSucceeded /\ StampsNotEarlier) =>
        SecondUpload = <<>> /\ SecondDelete = <<>>

\* a completed run that uploaded and deleted, one stamp strictly later than the mtime
C3_Witness ==
    /\ Completed /\ AllSucceeded /\ StampsNotEarlier
    /\ Cardinality(Done("upload")) >= 2
    /\ Done("delete") # {}
    /\ \E k \in Done("upload") : remote[k].LastModified > Get(local_files, k).mtime + 1

\* C4: after a run in which every operation succeeded, the remote keys under
\* the prefix are the prefix + relative path of every local file whose name
\* does not start with a dot.
C4_Mirror ==
    (Completed /\ AllSucceeded) =>
        {k \in DOMAIN remote : StartsWith(k, prefix)} =
            {prefix \o p : p \in {q \in DOMAIN localTree :
                                    PathName(q) = <<>> \/ Head(PathName(q)) # "."}}

\* a completed run under a prefix, with a dotfile and a file in a subdirectory
\* locally, an upload and a delete done and a key outside the prefix kept
C4_Witness ==
    /\ Completed /\ AllSucceeded
    /\ prefix # <<>>
    /\ PathHidden \in DOMAIN localTree
    /\ PathB \in DOMAIN localTree
    /\ Done("upload") # {}
    /\ Done("delete") # {}
    /\ KeyOutside \in DOMAIN remote

\* C5: a run that is not interrupted attempts every planned upload and every
\* planned delete exactly once, in order, whatever failed before, and the
\* counters are the numbers of successes.
C5_BatchNotAborted ==
    Completed =>
        /\ [n \in 1 .. Len(OpsLogged("upload")) |-> OpsLogged("upload")[n].key]
              = [n \in 1 .. Len(to_upload) |-> to_upload[n].key]
        /\ [n \in 1 .. Len(OpsLogged("delete")) |-> OpsLogged("delete")[n].key] = to_delete
        /\ uploaded = Len(SelectSeq(OpsLogged("upload"), LAMBDA e : e.ok))
        /\ deleted = Len(SelectSeq(OpsLogged("delete"), LAMBDA e : e.ok))

\* the first upload and the first delete failed and the later ones succeeded
C5_Witness ==
    /\ Completed
    /\ Len(to_upload) = 2 /\ Len(to_delete) = 2
    /\ ~OpsLogged("upload")[1].ok /\ OpsLogged("upload")[2].ok
    /\ ~OpsLogged("delete")[1].ok /\ OpsLogged("delete")[2].ok
    /\ uploaded = 1 /\ deleted = 1

\* C6 (as claimed): the process exits 0 only when no upload or delete failed.
C6_ExitStatusReflectsFailures ==
    (pc = "exited" /\ exit_code = 0) =>
        \A n \in 1 .. Len(log) : log[n].op \in {"upload", "delete"} => log[n].ok

\* the plan the next run computes: a fresh scan of the local tree and a fresh
\* listing of the store as it is now
NextRunLocal == CHOOSE lf \in GetLocalFiles(localTree, prefix) : TRUE
NextRunUpload == Range(ToUpload(NextRunLocal, ListR2Objects(remote, prefix)))
NextRunDelete == Range(ToDelete(NextRunLocal, ListR2Objects(remote, prefix)))
NextRunPlanIs(up, del) ==
    LET lf == NextRunLocal
        r2 == ListR2Objects(remote, prefix)
    IN Range(ToUpload(lf, r2)) = up /\ Range(ToDelete(lf, r2)) = del

\* the original plan less the operations that completed
RemainingUpload == {e \in Range(to_upload) : e.key \notin Done("upload")}
RemainingDelete == Range(to_delete) \ Done("delete")

\* C7 (as claimed): after a run that was interrupted or had failures, the
\* plan of the next run is the original plan less the completed operations.
C7_RerunPlanIsRemainder ==
    (pc = "exited" /\ PlanComputed) =>
        NextRunUpload = RemainingUpload /\ NextRunDelete = RemainingDelete

\* every completed upload left an object stamped no more than one second
\* before the file's mtime
StampsWithinTolerance ==
    \A k \in Done("upload") :
        k \in DOMAIN remote /\ remote[k].LastModified + 1 >= Get(local_files, k).mtime

\* C7 (amended): after a run that was interrupted or had failures, and whose
\* completed uploads were each stamped by the store no more than one second
\* before the local mtime, the plan of the next run is the original plan less
\* the completed operations.
C7_RerunPlanIsRemainderWhenStamped ==
    (pc = "exited" /\ PlanComputed /\ StampsWithinTolerance) =>
        NextRunPlanIs(RemainingUpload, RemainingDelete)

\* a run interrupted after one upload completed and one failed, with uploads
\* and deletes of the plan still to do
C7_Witness ==
    /\ PlanComputed /\ pc = "exited" /\ exit_code = 1
    /\ StampsWithinTolerance
    /\ Cardinality(Done("upload")) = 1
    /\ Len(to_upload) = 2
    /\ Len(OpsLogged("upload")) = 2
    /\ Len(to_delete) = 2
    /\ Cardinality(Done("delete")) = 1
    /\ Len(OpsLogged("delete")) = 1
    /\ Cardinality(NextRunUpload) = 1 /\ Cardinality(NextRunDelete) = 1

\* the log follows the order: it begins with order[1], order[2], order[3],
\* each once and each needing the one before to have succeeded, then holds
\* order[4] entries only, then order[5] entries only
FollowsOrder(order) ==
    /\ \A n \in 1 .. Len(log) :
          IF n <= 3
            THEN log[n].op = order[n] /\ (n > 1 => log[n - 1].ok)
            ELSE /\ log[n].op \in {order[4], order[5]}
                 /\ log[n - 1].op = order[5] => log[n].op = order[5]

\* C8 (as claimed): list the remote store, scan the local tree, compute the
\* diff, execute the uploads, execute the deletes, in that order.
C8_RemoteListedFirst == FollowsOrder(<<"list", "scan", "diff", "upload", "delete">>)

\* C8 (amended): scan the local tree, list the remote store, compute the
\* diff, execute the uploads, execute the deletes, in that order; no upload or
\* delete before both listings are complete, no delete before the last upload.
C8_LocalScannedFirst == FollowsOrder(<<"scan", "list", "diff", "upload", "delete">>)

\* a finished run whose log holds all five steps
C8_Witness ==
    /\ Completed
    /\ Len(OpsLogged("upload")) = 2
    /\ Len(OpsLogged("delete")) = 2
    /\ Len(log) = 7

(***************************************************************************)
(* The filter matcher: get_metadata and matches_filters.                   *)
(***************************************************************************)
MaxKwLen == 3

MaxRating == 3

MaxRatingLen == 3

\* an optional value: None, or Some(v)
None == [some |-> FALSE]
Some(v) == [some |-> TRUE, val |-> v]

\* Python truthiness of an optional string and of an optional integer
TruthyStr(o) == o.some /\ o.val # <<>>
TruthyInt(o) == o.some /\ o.val # 0

StringsUpTo(chars, n) == UNION {[1 .. m -> chars] : m \in 0 .. n}

Lower(s) ==
    LET
        \* str.lower(), on the characters of the model
        LowerChar(c) ==
            CASE c = "A" -> "a"
              [] c = "B" -> "b"
              [] c = "S" -> "s"
              [] OTHER -> c
    IN
    [n \in 1 .. Len(s) |-> LowerChar(s[n])]

\* str.strip(): whitespace off both ends
RECURSIVE LStripSpace(_)
LStripSpace(s) == IF s # <<>> /\ Head(s) = " " THEN LStripSpace(Tail(s)) ELSE s

Strip(s) == RStrip(LStripSpace(s), " ")

\* str.split(sep): the pieces between the separators, empty pieces included
RECURSIVE Split(_, _)
Split(s, sep) ==
    IF \E n \in 1 .. Len(s) : s[n] = sep
      THEN LET at == CHOOSE n \in 1 .. Len(s) : s[n] = sep /\ \A m \in 1 .. n - 1 : s[m] # sep
           IN <<SubSeq(s, 1, at - 1)>> \o Split(SubSeq(s, at + 1, Len(s)), sep)
      ELSE <<s>>

\* str.replace(c, '')
RECURSIVE Remove(_, _)
Remove(s, c) ==
    IF s = <<>> THEN <<>>
    ELSE (IF Head(s) = c THEN <<>> ELSE <<Head(s)>>) \o Remove(Tail(s), c)

Digits == <<"0", "1", "2", "3", "4", "5", "6", "7", "8", "9">>

IsDigit(c) == \E n \in 1 .. Len(Digits) : Digits[n] = c

RECURSIVE DecimalValue(_)
DecimalValue(s) ==
    LET
        DigitValue(c) == (CHOOSE n \in 1 .. Len(Digits) : Digits[n] = c) - 1
    IN
    IF s = <<>> THEN 0
    ELSE 10 * DecimalValue(SubSeq(s, 1, Len(s) - 1)) + DigitValue(s[Len(s)])

\* int(s): surrounding whitespace and a leading minus are accepted; anything
\* else than digits raises ValueError (ok = FALSE)
ParseInt(s) ==
    LET t == Strip(s)
        neg == t # <<>> /\ Head(t) = "-"
        body == IF neg THEN Tail(t) ELSE t
    IN IF body # <<>> /\ \A n \in 1 .. Len(body) : IsDigit(body[n])
         THEN [ok |-> TRUE, val |-> IF neg THEN 0 - DecimalValue(body) ELSE DecimalValue(body)]
         ELSE [ok |-> FALSE, val |-> 0]

\* get_metadata, lines 392-418, for the fields the matcher reads
GetMetadata(xmp, exif) ==
    [keywords |-> IF "keywords" \in DOMAIN xmp
                    THEN [n \in 1 .. Len(xmp.keywords) |-> Lower(xmp.keywords[n])]
                    ELSE <<>>,
     location |-> IF "location" \in DOMAIN xmp THEN Some(xmp.location) ELSE None,
     rating |-> IF "rating" \in DOMAIN xmp THEN Some(xmp.rating) ELSE None,
     date |-> IF "date" \in DOMAIN exif THEN Some(exif.date) ELSE None]

\* Location.__bool__, line 62
LocationTruthy(loc) ==
    TruthyStr(loc.sublocation) \/ TruthyStr(loc.city) \/ TruthyStr(loc.state)
        \/ TruthyStr(loc.country)

FilterTermsUnstripped(value) ==
    LET parts == Split(value, ",") IN [n \in 1 .. Len(parts) |-> Lower(parts[n])]

\* line 455: [kw.strip().lower() for kw in filters['keywords'].split(',')]
FilterTerms(value) ==
    LET parts == Split(value, ",") IN [n \in 1 .. Len(parts) |-> Lower(Strip(parts[n]))]

\* lines 454-458
KeywordsPass(md, f) ==
    LET filter_keywords == FilterTerms(f.keywords)
    IN filter_keywords # <<>> =>
          \E n \in 1 .. Len(filter_keywords) :
              \E m \in 1 .. Len(md.keywords) : md.keywords[m] = filter_keywords[n]

\* lines 461-474
LocationPass(md, f) ==
    /\ md.location.some
    /\ LocationTruthy(md.location.val)
    /\ LET filter_loc == Lower(f.location)
           loc == md.location.val
           Same(field) == TruthyStr(field) /\ filter_loc = Lower(field.val)
       IN Same(loc.sublocation) \/ Same(loc.city) \/ Same(loc.state) \/ Same(loc.country)

RatingPassPlusIgnored(md, f) ==
    IF ~TruthyInt(md.rating) THEN "False"
    ELSE LET exact_rating == ParseInt(Remove(f.rating, "+"))
         IN IF ~exact_rating.ok THEN "ValueError"
            ELSE IF md.rating.val # exact_rating.val THEN "False" ELSE "True"

RatingPassAboveOnly(md, f) ==
    IF ~TruthyInt(md.rating) THEN "False"
    ELSE IF \E n \in 1 .. Len(f.rating) : f.rating[n] = "+"
      THEN LET min_rating == ParseInt(Remove(f.rating, "+"))
           IN IF ~min_rating.ok THEN "ValueError"
              ELSE IF md.rating.val <= min_rating.val THEN "False" ELSE "True"
      ELSE LET exact_rating == ParseInt(f.rating)
           IN IF ~exact_rating.ok THEN "ValueError"
              ELSE IF md.rating.val # exact_rating.val THEN "False" ELSE "True"

\* lines 477-489: "True", "False", or "ValueError" when int() raises
RatingPass(md, f) ==
    IF ~TruthyInt(md.rating) THEN "False"
    ELSE IF \E n \in 1 .. Len(f.rating) : f.rating[n] = "+"
      THEN LET min_rating == ParseInt(Remove(f.rating, "+"))
           IN IF ~min_rating.ok THEN "ValueError"
              ELSE IF md.rating.val < min_rating.val THEN "False" ELSE "True"
      ELSE LET exact_rating == ParseInt(f.rating)
           IN IF ~exact_rating.ok THEN "ValueError"
              ELSE IF md.rating.val # exact_rating.val THEN "False" ELSE "True"

DatePassAnyDate(md, f) == TruthyStr(md.date)

\* lines 492-494
DatePass(md, f) == TruthyStr(md.date) /\ StartsWith(md.date.val, f.date)

\* line 450: not filters
FiltersFalsy(flt) == ~flt.given \/ DOMAIN flt.map = {}

\* matches_filters, lines 450-496
MatchesFilters(md, flt) ==
    LET f == flt.map
    IN IF FiltersFalsy(flt) THEN "False"
       ELSE IF "keywords" \in DOMAIN f /\ ~KeywordsPass(md, f) THEN "False"
       ELSE IF "location" \in DOMAIN f /\ ~LocationPass(md, f) THEN "False"
       ELSE IF "rating" \in DOMAIN f /\ RatingPass(md, f) # "True" THEN RatingPass(md, f)
       ELSE IF "date" \in DOMAIN f /\ ~DatePass(md, f) THEN "False"
       ELSE "True"

\* a dict with the key k bound to one of vals, or without it
OptKey(k, vals) == {<<>>} \cup {[x \in {k} |-> v] : v \in vals}

\* every rating value up to MaxRatingLen characters alone: plain numbers,
\* numbers with plus signs, and values int() refuses
RatingOnlyMaps ==
    {[rating |-> v] : v \in StringsUpTo({"0", "2", "+", "x"}, MaxRatingLen)}

\* the mirror at rest, while the matcher runs
SyncIdle ==
    /\ localTree = <<>>
    /\ dirExists = FALSE
    /\ remote = <<>>
    /\ r2_prefix = <<>>
    /\ pc = "idle"
    /\ local_files = <<>>
    /\ r2_objects = <<>>
    /\ to_upload = <<>>
    /\ to_delete = <<>>
    /\ idx = 0
    /\ uploaded = 0
    /\ deleted = 0
    /\ log = <<>>
    /\ exit_code = -1

\* get_metadata on an existing file
BuildMetadata ==
    /\ mpc = "read"
    /\ metadata' = GetMetadata(xmp_data, exif_data)
    /\ mpc' = "built"
    /\ UNCHANGED <<xmp_data, exif_data, filters, result>>
    /\ UNCHANGED <<syncVars, ingestVars, collectionVars, curateVars, parseVars, listVars>>

\* matches_filters(metadata, filters)
Match ==
    /\ mpc = "built"
    /\ result' = MatchesFilters(metadata, filters)
    /\ mpc' = "matched"
    /\ UNCHANGED <<xmp_data, exif_data, filters, metadata>>
    /\ UNCHANGED <<syncVars, ingestVars, collectionVars, curateVars, parseVars, listVars>>

MatchNext ==
    \/ BuildMetadata
    \/ Match

InitMatch ==
    LET
        FilterInputs ==
            LET
                CombinedMaps ==
                    {k @@ l @@ r @@ d @@ o :
                        k \in OptKey("keywords", {<<"a">>, <<"x", ",", "b">>}),
                        l \in OptKey("location", {<<"s">>, <<"S", "S">>}),
                        r \in OptKey("rating", {<<"2">>, <<"2", "+">>, <<"x">>}),
                        d \in OptKey("date", {<<"2", "0">>, <<>>}),
                        o \in OptKey("other", {<<"a">>})}
                \* the filter specs: every keywords value up to MaxKwLen characters alone,
                \* and every combination of the keys over a few values each
                KeywordsOnlyMaps == {[keywords |-> v] : v \in StringsUpTo({"a", "B", " ", ","}, MaxKwLen)}
            IN
            {[given |-> FALSE, map |-> <<>>]}
                \cup {[given |-> TRUE, map |-> m] : m \in KeywordsOnlyMaps \cup RatingOnlyMaps \cup CombinedMaps}
        ExifInputs == OptKey("date", {<<"2", "0", ":", "1">>, <<"2", "1">>})
        XmpInputs ==
            LET
                XmpLocations ==
                    {[sublocation |-> None, city |-> Some(<<"S">>), state |-> None, country |-> None],
                     [sublocation |-> Some(<<"x">>), city |-> None, state |-> Some(<<"s">>),
                      country |-> Some(<<"S", "s">>)]}
                \* what _read_xmp_from_jpg can return: keywords is a non-empty list of
                \* stripped strings, location has a field set, rating is an integer
                XmpKeywordLists ==
                    {<<<<"a">>>>, <<<<"B">>>>, <<<<>>>>, <<<<"a">>, <<"B">>>>, <<<<"B">>, <<>>>>,
                     <<<<"a">>, <<>>>>, <<<<"a">>, <<"B">>, <<>>>>}
            IN
            {k @@ l @@ r : k \in OptKey("keywords", XmpKeywordLists),
                           l \in OptKey("location", XmpLocations),
                           r \in OptKey("rating", 0 .. MaxRating)}
    IN
    /\ SyncIdle
    /\ xmp_data \in XmpInputs
    /\ exif_data \in ExifInputs
    /\ filters \in FilterInputs
    /\ metadata = <<>>
    /\ result = "none"
    /\ mpc = "read"
    /\ IngestIdle
    /\ CollectionIdle
    /\ OthersIdle

SpecMatch == InitMatch /\ [][MatchNext]_vars

(***************************************************************************)
(* The ingester: sanitize_location, extract_year_from_date, ingest_photo.  *)
(***************************************************************************)
MaxLocLen == 4

\* str.isalnum(), on the characters of the model
IsAlnum(c) == IsDigit(c) \/ c \in {"A", "B", "S", "a", "b", "c", "h", "s", "x"}

\* sep.join(parts)
RECURSIVE Join(_, _)
Join(parts, sep) ==
    IF parts = <<>> THEN <<>>
    ELSE IF Len(parts) = 1 THEN parts[1]
    ELSE parts[1] \o <<sep>> \o Join(Tail(parts), sep)

\* filter(None, parts): the non-empty strings
NonEmpty(parts) == SelectSeq(parts, LAMBDA p : p # <<>>)

SanitizeLocationUncollapsed(loc) ==
    IF ~TruthyStr(loc) THEN None
    ELSE LET lowered == Lower(loc.val)
             replaced == [n \in 1 .. Len(lowered) |->
                            IF IsAlnum(lowered[n]) \/ lowered[n] \in {"-", "_"}
                              THEN lowered[n] ELSE "-"]
         IN IF replaced # <<>> THEN Some(replaced) ELSE None

\* sanitize_location, lines 60-68
SanitizeLocation(loc) ==
    IF ~TruthyStr(loc) THEN None
    ELSE LET lowered == Lower(loc.val)
             replaced == [n \in 1 .. Len(lowered) |->
                            IF IsAlnum(lowered[n]) \/ lowered[n] \in {"-", "_"}
                              THEN lowered[n] ELSE "-"]
             joined == Join(NonEmpty(Split(replaced, "-")), "-")
         IN IF joined # <<>> THEN Some(joined) ELSE None

Sanitize ==
    /\ ipc = "call"
    /\ sanitized' = SanitizeLocation(location)
    /\ ipc' = "returned"
    /\ UNCHANGED <<location, photo_exists, dry_run, dest_exists, move_fails,
                   location_parts, ingested, moved>>
    /\ UNCHANGED <<syncVars, matchVars, collectionVars, curateVars, parseVars, listVars>>

InitSanitize ==
    LET
        \* the arguments: None, and every string up to MaxLocLen characters
        LocationInputs ==
            {None} \cup {Some(v) : v \in StringsUpTo({"a", "B", "1", "_", "-", " ", "!"}, MaxLocLen)}
    IN
    /\ SyncIdle
    /\ MatchIdle
    /\ location \in LocationInputs
    /\ sanitized = None
    /\ IngestPhotoIdle
    /\ ipc = "call"
    /\ CollectionIdle
    /\ OthersIdle

SpecSanitize == InitSanitize /\ [][Sanitize]_vars

MaxFieldLen == 2

MaxDateLen == 5

\* extract_year_from_date, lines 36-47
ExtractYearFromDate(date_string) ==
    IF ~TruthyStr(date_string) THEN None
    ELSE LET year == Split(Split(date_string.val, ":")[1], "-")[1]
         IN IF year # <<>> /\ (\A n \in 1 .. Len(year) : IsDigit(year[n])) /\ Len(year) = 4
              THEN Some(year)
              ELSE None

UnknownYear == <<"u", "n", "k", "n", "o", "w", "n", "-", "y", "e", "a", "r">>

UnknownLocation ==
    <<"u", "n", "k", "n", "o", "w", "n", "-", "l", "o", "c", "a", "t", "i", "o", "n">>

\* photo_path.name
PhotoName == <<"p">>

LocationPartsCityFirst(md) ==
    IF md.location.some /\ LocationTruthy(md.location.val)
      THEN (IF TruthyStr(md.location.val.city)
              THEN <<SanitizeLocation(md.location.val.city)>> ELSE <<>>)
           \o (IF TruthyStr(md.location.val.state)
                 THEN <<SanitizeLocation(md.location.val.state)>> ELSE <<>>)
      ELSE <<>>

\* lines 94-102: location_parts; empty as well when the branch of line 112 is
\* taken
LocationParts(md) ==
    IF md.location.some /\ LocationTruthy(md.location.val)
      THEN (IF TruthyStr(md.location.val.state)
              THEN <<SanitizeLocation(md.location.val.state)>> ELSE <<>>)
           \o (IF TruthyStr(md.location.val.city)
                 THEN <<SanitizeLocation(md.location.val.city)>> ELSE <<>>)
      ELSE <<>>

\* lines 104-112: dest_dir below photos_root, as its path segments; dividing
\* a path by None raises TypeError
DestDir(year, parts) ==
    IF parts # <<>>
      THEN IF \E n \in 1 .. Len(parts) : ~parts[n].some
             THEN [raised |-> TRUE, dir |-> <<>>]
             ELSE [raised |-> FALSE, dir |-> <<year>> \o [n \in 1 .. Len(parts) |-> parts[n].val]]
      ELSE [raised |-> FALSE, dir |-> <<year, UnknownLocation>>]

\* the Location records _read_xmp_from_jpg can build: a field is None or a
\* non-empty string, and one field at least is set
FieldInputs ==
    {None} \cup {Some(v) : v \in UNION {[1 .. m -> {"a", "B", "!", "-"}] : m \in 1 .. MaxFieldLen}}

\* ingest_photo, lines 83-130
IngestPhoto ==
    /\ ipc = "ingest"
    /\ ipc' = "ingested"
    /\ IF ~photo_exists
         THEN /\ ingested' = [NotIngested EXCEPT !.message = "Could not read metadata"]
              /\ UNCHANGED <<location_parts, moved>>
         ELSE LET md == GetMetadata(xmp_data, exif_data)
                  found == ExtractYearFromDate(md.date)
                  year == IF found.some THEN found.val ELSE UnknownYear
                  parts == LocationParts(md)
                  dest_dir == DestDir(year, parts)
                  dest_path == dest_dir.dir \o <<PhotoName>>
                  replaced == dest_exists
              IN /\ location_parts' = parts
                 /\ IF dest_dir.raised
                      THEN /\ ingested' = [NotIngested EXCEPT !.raised = "TypeError"]
                           /\ UNCHANGED moved
                      ELSE IF dry_run
                      THEN /\ ingested' =
                                [raised |-> "none", success |-> TRUE,
                                 message |-> IF replaced THEN "Would replace" ELSE "Would move to",
                                 dest_path |-> Some(dest_path), replaced |-> replaced]
                           /\ UNCHANGED moved
                      ELSE IF move_fails
                      THEN /\ ingested' = [NotIngested EXCEPT !.message = "Error moving file"]
                           /\ UNCHANGED moved
                      ELSE /\ ingested' =
                                [raised |-> "none", success |-> TRUE,
                                 message |-> IF replaced THEN "Replaced" ELSE "Moved to",
                                 dest_path |-> Some(dest_path), replaced |-> replaced]
                           /\ moved' = TRUE
    /\ UNCHANGED <<location, sanitized, photo_exists, dry_run, dest_exists, move_fails>>
    /\ UNCHANGED <<syncVars, matchVars, collectionVars, curateVars, parseVars, listVars>>

\* the photos ingest_photo is called on: every location with a few dates,
\* every date with a few locations, and every file-system circumstance with
\* a few of both
InitIngest ==
    LET
        FewDates == {<<"2", "2", "2", "2", ":", "2">>, <<"2", "2">>}
        FewLocations ==
            {[sublocation |-> Some(<<"x">>), city |-> Some(<<"B", "!">>), state |-> Some(<<"a">>),
              country |-> None],
             [sublocation |-> None, city |-> Some(<<"!">>), state |-> None, country |-> None]}
        DateInputs == StringsUpTo({"2", "x", ":", "-"}, MaxDateLen)
        IngestLocations ==
            {l \in [sublocation : {None, Some(<<"x">>)}, city : FieldInputs, state : FieldInputs,
                    country : {None, Some(<<"S">>)}] :
                l.sublocation.some \/ l.city.some \/ l.state.some \/ l.country.some}
    IN
    /\ SyncIdle
    /\ \/ /\ xmp_data \in OptKey("location", IngestLocations)
          /\ exif_data \in OptKey("date", FewDates)
          /\ photo_exists = TRUE /\ dry_run = TRUE /\ dest_exists = FALSE /\ move_fails = FALSE
       \/ /\ xmp_data \in OptKey("location", FewLocations)
          /\ exif_data \in OptKey("date", DateInputs)
          /\ photo_exists = TRUE /\ dry_run = TRUE /\ dest_exists = FALSE /\ move_fails = FALSE
       \/ /\ xmp_data \in OptKey("location", FewLocations)
          /\ exif_data \in OptKey("date", FewDates)
          /\ photo_exists \in BOOLEAN /\ dry_run \in BOOLEAN
          /\ dest_exists \in BOOLEAN /\ move_fails \in BOOLEAN
    /\ filters = [given |-> FALSE, map |-> <<>>]
    /\ metadata = <<>>
    /\ result = "none"
    /\ mpc = "idle"
    /\ location = None
    /\ sanitized = None
    /\ location_parts = <<>>
    /\ ingested = NotIngested
    /\ moved = FALSE
    /\ ipc = "ingest"
    /\ CollectionIdle
    /\ OthersIdle

SpecIngest == InitIngest /\ [][IngestPhoto]_vars

(***************************************************************************)
(* The filter-based collection sync: scan_photos, sync_single_collection,  *)
(* main.                                                                   *)
(***************************************************************************)
\* paths relative to photos/
PhotoA == <<"a", ".", "j", "p", "g">>
PhotoB == <<"B", ".", "J", "P", "G">>
PhotoSub == <<"a", "/", "b", ".", "j", "p", "e", "g">>
PhotoPng == <<"c", ".", "p", "n", "g">>
PhotoExport == <<"e", "x", "p", "o", "r", "t", "s", "/", "d", ".", "j", "p", "g">>
PhotoGone == <<"z", ".", "j", "p", "g">>

\* Path.suffix: the name from its last dot on, unless that dot starts or ends
\* the name
Suffix(path) ==
    LET name == PathName(path)
        dots == {n \in 1 .. Len(name) : name[n] = "."}
    IN IF dots = {} THEN <<>>
       ELSE LET last == CHOOSE n \in dots : \A m \in dots : m <= n
            IN IF last = 1 \/ last = Len(name) THEN <<>> ELSE SubSeq(name, last, Len(name))

\* line 21
image_extensions ==
    {<<".", "j", "p", "g">>, <<".", "j", "p", "e", "g">>, <<".", "J", "P", "G">>,
     <<".", "J", "P", "E", "G">>}

\* line 24, for a file
IsImage(path) == Suffix(path) \in image_extensions

\* lines 26-29 for one file: "True", "False" or "ValueError"
PhotoMatches(tree, path, flt) ==
    MatchesFilters(GetMetadata(tree[path].xmp, tree[path].exif), flt)

\* scan_photos, lines 14-34: the sorted matching paths, or raised when
\* matches_filters raises on a file
ScanPhotos(tree, exists, flt) ==
    IF ~exists THEN [raised |-> FALSE, paths |-> <<>>]
    ELSE LET images == {p \in DOMAIN tree : IsImage(p)}
         IN IF \E p \in images : PhotoMatches(tree, p, flt) = "ValueError"
              THEN [raised |-> TRUE, paths |-> <<>>]
              ELSE [raised |-> FALSE,
                    paths |-> SortedKeys({p \in images : PhotoMatches(tree, p, flt) = "True"})]

ShouldSkipOnlyWithoutKey(collection) == ~collection.filters.some

\* line 64
ShouldSkip(collection) == ~collection.filters.some \/ FiltersFalsy(collection.filters.val)

EntriesKeepingCaptions(collection, matching_photos) ==
    [n \in 1 .. Len(matching_photos) |->
        IF \E m \in 1 .. Len(collection.photos) : collection.photos[m].path = matching_photos[n]
          THEN collection.photos[CHOOSE m \in 1 .. Len(collection.photos) :
                                    collection.photos[m].path = matching_photos[n]]
          ELSE [path |-> matching_photos[n], caption |-> <<>>, alt |-> <<>>]]

\* lines 76-79
Entries(collection, matching_photos) ==
    [n \in 1 .. Len(matching_photos) |->
        [path |-> matching_photos[n], caption |-> <<>>, alt |-> <<>>]]

CoverAlwaysFirst(collection, matching_photos) ==
    IF matching_photos # <<>> THEN Some(matching_photos[1]) ELSE Some(<<>>)

\* lines 82-85
Cover(collection, matching_photos) ==
    IF matching_photos # <<>> /\ ~TruthyStr(collection.cover_path)
      THEN Some(matching_photos[1])
    ELSE IF matching_photos = <<>> THEN Some(<<>>)
    ELSE collection.cover_path

\* sync_single_collection, lines 60-96, on the loaded collection: what it
\* returns or raises, and the collection it leaves in the file
SyncSingleCollection(collection) ==
    IF ShouldSkip(collection) THEN [outcome |-> "False", saved |-> collection]
    ELSE LET scan == ScanPhotos(photos_tree, photos_dir_exists, collection.filters.val)
         IN IF scan.raised THEN [outcome |-> "ValueError", saved |-> collection]
            ELSE [outcome |-> "True",
                  saved |-> [collection EXCEPT
                                !.photos = Entries(collection, scan.paths),
                                !.cover_path = Cover(collection, scan.paths)]]

\* the photos under photos/: each file absent, or there with its metadata
PhotoData ==
    {[xmp |-> [keywords |-> <<<<"a">>>>, rating |-> 3], exif |-> <<>>],
     [xmp |-> [rating |-> 1], exif |-> <<>>]}

OneData == {[xmp |-> [keywords |-> <<<<"a">>>>, rating |-> 3], exif |-> <<>>]}

Collections ==
    LET
        \* cover_path: missing, '', a photo of the tree, a photo that is gone
        PreviousCovers == {None, Some(<<>>), Some(PhotoA), Some(PhotoGone)}
        PreviousPhotos ==
            {<<>>,
             <<[path |-> PhotoGone, caption |-> <<"c">>, alt |-> <<"t">>]>>,
             <<[path |-> PhotoA, caption |-> <<"c">>, alt |-> <<>>],
               [path |-> PhotoB, caption |-> <<>>, alt |-> <<>>]>>}
        \* the values of a collection's filters key: missing, null, {}, and mappings
        CollectionFilters ==
            {None, Some([given |-> FALSE, map |-> <<>>]), Some([given |-> TRUE, map |-> <<>>])}
              \cup {Some([given |-> TRUE, map |-> m]) :
                      m \in {[keywords |-> <<"a">>], [rating |-> <<"2", "+">>], [rating |-> <<"x">>],
                             [other |-> <<"a">>]}}
    IN
    {[filters |-> f, photos |-> p, cover_path |-> c] :
        f \in CollectionFilters, p \in PreviousPhotos, c \in PreviousCovers}

\* main, lines 116-121: one turn of the loop over the collection files
SyncNextOfAll ==
    /\ cpc = "sync"
    /\ args_all
    /\ LET k == Len(returned) + 1
           call == SyncSingleCollection(collection_files[k])
       IN IF call.outcome = "ValueError"
            THEN /\ cpc' = "ValueError"
                 /\ UNCHANGED <<collection_files, returned, synced_count, skipped_count>>
            ELSE /\ collection_files' = [collection_files EXCEPT ![k] = call.saved]
                 /\ returned' = Append(returned, call.outcome)
                 /\ synced_count' = synced_count + (IF call.outcome = "True" THEN 1 ELSE 0)
                 /\ skipped_count' = skipped_count + (IF call.outcome = "True" THEN 0 ELSE 1)
                 /\ cpc' = IF k = Len(collection_files) THEN "done" ELSE "sync"
    /\ UNCHANGED <<photos_tree, photos_dir_exists, original_files, args_all>>
    /\ UNCHANGED <<syncVars, matchVars, ingestVars, curateVars, parseVars, listVars>>

\* main, lines 128-132: the named collection, here the first one
SyncNamed ==
    /\ cpc = "sync"
    /\ ~args_all
    /\ LET call == SyncSingleCollection(collection_files[1])
       IN IF call.outcome = "ValueError"
            THEN /\ cpc' = "ValueError"
                 /\ UNCHANGED <<collection_files, returned>>
            ELSE /\ collection_files' = [collection_files EXCEPT ![1] = call.saved]
                 /\ returned' = Append(returned, call.outcome)
                 /\ cpc' = "done"
    /\ UNCHANGED <<photos_tree, photos_dir_exists, original_files, args_all, synced_count,
                   skipped_count>>
    /\ UNCHANGED <<syncVars, matchVars, ingestVars, curateVars, parseVars, listVars>>

CollectionNext ==
    \/ SyncNextOfAll
    \/ SyncNamed

InitCollection ==
    LET
        \* a second collection file: a manual one, or a filtered one
        SecondCollections ==
            {[filters |-> None, photos |-> <<>>, cover_path |-> None],
             [filters |-> Some([given |-> TRUE, map |-> [rating |-> <<"2", "+">>]]), photos |-> <<>>,
              cover_path |-> None]}
        PhotoTrees ==
            {a @@ b @@ c @@ d @@ e :
                a \in {<<>>} \cup {[p \in {PhotoA} |-> x] : x \in PhotoData},
                b \in {<<>>} \cup {[p \in {PhotoB} |-> x] : x \in PhotoData},
                c \in {<<>>} \cup {[p \in {PhotoSub} |-> x] : x \in OneData},
                d \in {<<>>} \cup {[p \in {PhotoPng} |-> x] : x \in OneData},
                e \in {<<>>} \cup {[p \in {PhotoExport} |-> x] : x \in OneData}}
    IN
    /\ SyncIdle
    /\ MatchIdle
    /\ IngestIdle
    /\ photos_tree \in PhotoTrees
    /\ photos_dir_exists \in BOOLEAN
    /\ ~photos_dir_exists => photos_tree = <<>>
    /\ collection_files \in
          {<<c>> : c \in Collections}
            \cup {<<c, d>> : c \in Collections, d \in SecondCollections}
    /\ original_files = collection_files
    /\ args_all \in BOOLEAN
    /\ returned = <<>>
    /\ synced_count = 0
    /\ skipped_count = 0
    /\ cpc = "sync"
    /\ OthersIdle

SpecCollection == InitCollection /\ [][CollectionNext]_vars

(***************************************************************************)
(* Curating one collection: add_to_collection.py, add_to_portfolio.py,     *)
(* add_photos.py and sync_collection.py on the same collection file.       *)
(***************************************************************************)
MaxArgs == 2

\* the collection's name, also the name of its directory below photos/
CollectionName == <<"a">>

\* a second image in the collection's directory, next to PhotoSub
PhotoDirPng == <<"a", "/", "B", ".", "p", "n", "g">>

\* a file in the collection's directory that is no image
PhotoDirText == <<"a", "/", "n", ".", "t", "x", "t">>

\* add_to_collection.py, create_new_collection, lines 37-47
CreateNewCollection == [filters |-> None, photos |-> <<>>, cover_path |-> Some(<<>>)]

\* add_to_collection.py, load_or_create_collection, lines 21-35
LoadOrCreateCollection(files) == IF files # <<>> THEN files[1] ELSE CreateNewCollection

MemberPaths(collection) == {collection.photos[n].path : n \in 1 .. Len(collection.photos)}

AddPhotoUnchecked(collection, photo_path) ==
    LET photos == Append(collection.photos,
                         [path |-> photo_path, caption |-> <<>>, alt |-> <<>>])
    IN [returned |-> "True",
        collection |-> [collection EXCEPT
                          !.photos = photos,
                          !.cover_path = IF Len(photos) = 1 THEN Some(photo_path) ELSE @]]

AddPhotoCoverAlways(collection, photo_path) ==
    IF photo_path \in MemberPaths(collection)
      THEN [returned |-> "False", collection |-> collection]
      ELSE [returned |-> "True",
            collection |-> [collection EXCEPT
                              !.photos = Append(@, [path |-> photo_path, caption |-> <<>>,
                                                    alt |-> <<>>]),
                              !.cover_path = Some(photo_path)]]

\* add_photo_to_collection, lines 49-68, and add_photo_to_portfolio, lines
\* 35-54, which is the same function: what it returns and the collection it
\* leaves
AddPhoto(collection, photo_path) ==
    LET existing_paths == MemberPaths(collection)
    IN IF photo_path \in existing_paths
         THEN [returned |-> "False", collection |-> collection]
         ELSE LET photos == Append(collection.photos,
                                   [path |-> photo_path, caption |-> <<>>, alt |-> <<>>])
              IN [returned |-> "True",
                  collection |-> [collection EXCEPT
                                    !.photos = photos,
                                    !.cover_path =
                                        IF Len(photos) = 1 THEN Some(photo_path) ELSE @]]

EndsWith(s, suffix) ==
    Len(suffix) <= Len(s) /\ SubSeq(s, Len(s) - Len(suffix) + 1, Len(s)) = suffix

\* add_photos.py, line 13
listed_extensions ==
    image_extensions
      \cup {<<".", "p", "n", "g">>, <<".", "g", "i", "f">>, <<".", "P", "N", "G">>,
            <<".", "G", "I", "F">>}

\* get_image_files, lines 8-20
GetImageFiles(tree, dir) ==
    LET \* os.listdir(photo_dir): the names of what lies directly in the directory
        listdir == {SubSeq(p, Len(dir) + 2, Len(p)) :
                      p \in {q \in DOMAIN tree :
                               /\ StartsWith(q, dir \o <<"/">>)
                               /\ \A n \in (Len(dir) + 2) .. Len(q) : q[n] # "/"}}
    IN SortedKeys({name \in listdir : \E ext \in listed_extensions : EndsWith(name, ext)})

\* add_photos.py, create_collection_structure, lines 22-35
CreateCollectionStructure(collection_name, photos) ==
    [filters |-> None, photos |-> <<>>,
     cover_path |-> IF photos # <<>> THEN Some(collection_name \o <<"/">> \o photos[1])
                    ELSE Some(<<>>)]

SyncPhotosAppendingAll(collection, collection_name, photo_files) ==
    LET Path(n) == collection_name \o <<"/">> \o photo_files[n]
        current_photo_paths == {Path(n) : n \in 1 .. Len(photo_files)}
        kept == SelectSeq(collection.photos, LAMBDA photo : photo.path \in current_photo_paths)
        fresh == [n \in 1 .. Len(photo_files) |->
                    [path |-> Path(n), caption |-> <<>>, alt |-> <<>>]]
    IN [collection |-> [collection EXCEPT !.photos = kept \o fresh],
        added_count |-> Len(fresh),
        removed_count |-> Len(collection.photos) - Len(kept),
        cover_updated |-> FALSE]

SyncPhotosFreshFirst(collection, collection_name, photo_files) ==
    LET Path(n) == collection_name \o <<"/">> \o photo_files[n]
        current_photo_paths == {Path(n) : n \in 1 .. Len(photo_files)}
        kept == SelectSeq(collection.photos, LAMBDA photo : photo.path \in current_photo_paths)
        existing_paths == {kept[n].path : n \in 1 .. Len(kept)}
        all == [n \in 1 .. Len(photo_files) |->
                  [path |-> Path(n), caption |-> <<>>, alt |-> <<>>]]
        fresh == SelectSeq(all, LAMBDA photo : photo.path \notin existing_paths)
    IN [collection |-> [collection EXCEPT !.photos = fresh \o kept],
        added_count |-> Len(fresh),
        removed_count |-> Len(collection.photos) - Len(kept),
        cover_updated |-> FALSE]

SyncPhotosCoverAlways(collection, collection_name, photo_files) ==
    LET Path(n) == collection_name \o <<"/">> \o photo_files[n]
        current_photo_paths == {Path(n) : n \in 1 .. Len(photo_files)}
        kept == SelectSeq(collection.photos, LAMBDA photo : photo.path \in current_photo_paths)
        existing_paths == {kept[n].path : n \in 1 .. Len(kept)}
        all == [n \in 1 .. Len(photo_files) |->
                  [path |-> Path(n), caption |-> <<>>, alt |-> <<>>]]
        fresh == SelectSeq(all, LAMBDA photo : photo.path \notin existing_paths)
        photos == kept \o fresh
    IN [collection |->
            [collection EXCEPT
                !.photos = photos,
                !.cover_path = IF photos # <<>> THEN Some(photos[1].path) ELSE Some(<<>>)],
        added_count |-> Len(fresh),
        removed_count |-> Len(collection.photos) - Len(kept),
        cover_updated |-> TRUE]

\* sync_photos_in_collection, lines 53-98: the collection it leaves and the
\* three values it returns
SyncPhotosInCollection(collection, collection_name, photo_files) ==
    LET Path(n) == collection_name \o <<"/">> \o photo_files[n]
        current_photo_paths == {Path(n) : n \in 1 .. Len(photo_files)}
        cover_path == collection.cover_path
        cover_removed == TruthyStr(cover_path) /\ cover_path.val \notin current_photo_paths
        kept == SelectSeq(collection.photos, LAMBDA photo : photo.path \in current_photo_paths)
        existing_paths == {kept[n].path : n \in 1 .. Len(kept)}
        all == [n \in 1 .. Len(photo_files) |->
                  [path |-> Path(n), caption |-> <<>>, alt |-> <<>>]]
        fresh == SelectSeq(all, LAMBDA photo : photo.path \notin existing_paths)
        photos == kept \o fresh
        cover_updated ==
            cover_removed \/ (TruthyStr(cover_path) /\ cover_path.val \notin current_photo_paths)
    IN [collection |->
            [collection EXCEPT
                !.photos = photos,
                !.cover_path = IF cover_updated
                                 THEN (IF photos # <<>> THEN Some(photos[1].path)
                                       ELSE Some(<<>>))
                                 ELSE @],
        added_count |-> Len(fresh),
        removed_count |-> Len(collection.photos) - Len(kept),
        cover_updated |-> cover_updated]

\* the files the curated tree may hold: two in the collection's directory,
\* one elsewhere
CuratedFiles == {PhotoSub, PhotoDirPng, PhotoA}

StepOf(op, path, outcome) == [NoStep EXCEPT !.op = op, !.path = path, !.returned = outcome]

CurateFrame ==
    /\ UNCHANGED <<photos_dir_exists, original_files, args_all, returned, synced_count,
                   skipped_count, cpc>>
    /\ UNCHANGED <<syncVars, matchVars, ingestVars, parseVars, listVars>>

\* add_to_collection.py main, lines 82-96, and add_to_portfolio.py main,
\* lines 66-79: the collection is loaded; the portfolio has to exist
AddStart ==
    /\ kpc = "ready"
    /\ \E script \in {"add_to_collection", "add_to_portfolio"}, n \in 1 .. MaxArgs :
        /\ script = "add_to_portfolio" => collection_files # <<>>
        /\ argv' = n
        /\ loaded' = LoadOrCreateCollection(collection_files)
        /\ before' = LoadOrCreateCollection(collection_files)
        /\ step' = StepOf("load", <<>>, "none")
        /\ added_photos' = 0
        /\ kpc' = script
    /\ UNCHANGED <<photos_tree, collection_files>>
    /\ CurateFrame

\* one turn of the loop, lines 99-119 (82-102 for the portfolio)
AddOne ==
    LET
        \* a photo path of the command line, as get_relative_photo_path (lines 8-19)
        \* returns it: below photos/ (there or not), or None for one outside
        ArgvInputs == {None} \cup {Some(p) : p \in CuratedFiles}
    IN
    /\ kpc \in {"add_to_collection", "add_to_portfolio"}
    /\ argv > 0
    /\ argv' = argv - 1
    /\ before' = loaded
    /\ \E relative_path \in ArgvInputs :
          IF ~relative_path.some
            THEN /\ step' = StepOf("add", <<>>, "not within photos directory")
                 /\ UNCHANGED <<loaded, added_photos>>
          ELSE IF relative_path.val \notin DOMAIN photos_tree
            THEN /\ step' = StepOf("add", relative_path.val, "file not found")
                 /\ UNCHANGED <<loaded, added_photos>>
          ELSE LET call == AddPhoto(loaded, relative_path.val)
               IN /\ step' = StepOf("add", relative_path.val, call.returned)
                  /\ loaded' = call.collection
                  /\ added_photos' = added_photos + (IF call.returned = "True" THEN 1 ELSE 0)
    /\ UNCHANGED <<photos_tree, collection_files, kpc>>
    /\ CurateFrame

\* lines 121-123 (104-106): the file is written if a photo was added
AddSave ==
    /\ kpc \in {"add_to_collection", "add_to_portfolio"}
    /\ argv = 0
    /\ collection_files' = IF added_photos > 0 THEN <<loaded>> ELSE collection_files
    /\ step' = StepOf("save", <<>>, "none")
    /\ before' = loaded
    /\ kpc' = "ready"
    /\ UNCHANGED <<photos_tree, argv, loaded, added_photos>>
    /\ CurateFrame

\* add_photos.py main, lines 112-137
AddPhotos ==
    /\ kpc = "ready"
    /\ LET photo_files == GetImageFiles(photos_tree, CollectionName)
       IN IF photo_files = <<>> /\ collection_files = <<>>
            THEN /\ step' = StepOf("add_photos", <<>>, "exit")
                 /\ UNCHANGED <<collection_files, loaded, before>>
            ELSE LET found == IF collection_files # <<>> THEN collection_files[1]
                              ELSE CreateCollectionStructure(CollectionName, photo_files)
                     call == SyncPhotosInCollection(found, CollectionName, photo_files)
                 IN /\ before' = found
                    /\ loaded' = call.collection
                    /\ collection_files' = <<call.collection>>
                    /\ step' = [op |-> "add_photos", path |-> <<>>,
                                returned |-> IF step.op = "add_photos" /\ step.returned # "exit"
                                               THEN "again" ELSE "first",
                                added_count |-> call.added_count,
                                removed_count |-> call.removed_count,
                                cover_updated |-> call.cover_updated]
    /\ UNCHANGED <<photos_tree, argv, added_photos, kpc>>
    /\ CurateFrame

\* sync_collection.py main on the collection, lines 127-132
FilterSync ==
    /\ kpc = "ready"
    /\ collection_files # <<>>
    /\ LET call == SyncSingleCollection(collection_files[1])
       IN /\ before' = collection_files[1]
          /\ loaded' = call.saved
          /\ collection_files' = <<call.saved>>
          /\ step' = StepOf("sync_collection", <<>>, call.outcome)
    /\ UNCHANGED <<photos_tree, argv, added_photos, kpc>>
    /\ CurateFrame

\* between two scripts a file appears below photos/
CreateFileAmong(files) ==
    /\ kpc = "ready"
    /\ \E p \in files \ DOMAIN photos_tree :
          photos_tree' = photos_tree @@ [q \in {p} |-> CHOOSE x \in OneData : TRUE]
    /\ step' = StepOf("files", <<>>, "none")
    /\ UNCHANGED <<collection_files, argv, loaded, before, added_photos, kpc>>
    /\ CurateFrame

\* between two scripts a file is deleted
RemoveFile ==
    /\ kpc = "ready"
    /\ \E p \in DOMAIN photos_tree :
          photos_tree' = [q \in DOMAIN photos_tree \ {p} |-> photos_tree[q]]
    /\ step' = StepOf("files", <<>>, "none")
    /\ UNCHANGED <<collection_files, argv, loaded, before, added_photos, kpc>>
    /\ CurateFrame

CurateNext ==
    \/ AddStart
    \/ AddOne
    \/ AddSave
    \/ AddPhotos
    \/ FilterSync
    \/ CreateFileAmong(CuratedFiles)
    \/ RemoveFile

\* a collection just created, or none yet, and any files below photos/
InitCurate ==
    LET
        CuratedTrees == {[p \in S |-> CHOOSE x \in OneData : TRUE] : S \in SUBSET CuratedFiles}
        \* create_collection.py, create_collection_structure: with or without filters
        NewCollections ==
            {CreateNewCollection,
             [CreateNewCollection EXCEPT
                !.filters = Some([given |-> TRUE, map |-> [rating |-> <<"2", "+">>]])]}
    IN
    /\ SyncIdle
    /\ MatchIdle
    /\ IngestIdle
    /\ photos_tree \in CuratedTrees
    /\ photos_dir_exists = TRUE
    /\ collection_files \in {<<>>} \cup {<<c>> : c \in NewCollections}
    /\ original_files = collection_files
    /\ args_all = FALSE
    /\ returned = <<>>
    /\ synced_count = 0
    /\ skipped_count = 0
    /\ cpc = "idle"
    /\ argv = 0
    /\ loaded = NothingInMemory
    /\ before = NothingInMemory
    /\ step = NoStep
    /\ added_photos = 0
    /\ kpc = "ready"
    /\ ParseIdle
    /\ ListIdle

SpecCurate == InitCurate /\ [][CurateNext]_vars

(***************************************************************************)
(* add_photos.py alone: a collection kept in step with its directory.      *)
(***************************************************************************)
MaxMembers == 2

\* what the collection's directory may hold, and a member from elsewhere
DirectoryFiles == {PhotoSub, PhotoDirPng, PhotoDirText}

\* a caption the curator wrote into the file
Caption == <<"c">>

DirectoryNext ==
    \/ AddPhotos
    \/ CreateFileAmong(DirectoryFiles)
    \/ RemoveFile

InitDirectory ==
    LET
        DirectoryTrees == {[p \in S |-> CHOOSE x \in OneData : TRUE] : S \in SUBSET DirectoryFiles}
        \* the collection files add_photos may find: members in any order, the first
        \* one captioned or not, and any cover
        CuratedCollections ==
            LET
                MemberLists ==
                    {l \in UNION {[1 .. m -> {PhotoSub, PhotoDirPng, PhotoA}] : m \in 0 .. MaxMembers} :
                        \A m, n \in 1 .. Len(l) : l[m] = l[n] => m = n}
            IN
            {[filters |-> None,
              photos |-> [n \in 1 .. Len(l) |->
                            [path |-> l[n],
                             caption |-> IF n = 1 THEN text ELSE <<>>,
                             alt |-> IF n = 1 THEN text ELSE <<>>]],
              cover_path |-> Some(cover)] :
                l \in MemberLists, text \in {<<>>, Caption},
                cover \in {<<>>, PhotoSub, PhotoDirPng, PhotoA}}
    IN
    /\ SyncIdle
    /\ MatchIdle
    /\ IngestIdle
    /\ photos_tree \in DirectoryTrees
    /\ photos_dir_exists = TRUE
    /\ collection_files \in {<<>>} \cup {<<c>> : c \in CuratedCollections}
    /\ original_files = collection_files
    /\ args_all = FALSE
    /\ returned = <<>>
    /\ synced_count = 0
    /\ skipped_count = 0
    /\ cpc = "idle"
    /\ argv = 0
    /\ loaded = NothingInMemory
    /\ before = NothingInMemory
    /\ step = NoStep
    /\ added_photos = 0
    /\ kpc = "ready"
    /\ ParseIdle
    /\ ListIdle

SpecDirectory == InitDirectory /\ [][DirectoryNext]_vars

(***************************************************************************)
(* Reading the embedded metadata of one file: photo_metadata.py,           *)
(* _read_xmp_from_jpg, _read_exif_data and get_metadata.                   *)
(***************************************************************************)
MaxPieces == 4
MaxTags == 2

\* b'<x:xmpmeta', line 145
OpenTag == <<"<", "x", ":", "x", "m", "p", "m", "e", "t", "a">>

\* b'</x:xmpmeta>', line 146
CloseTag == <<"<", "/", "x", ":", "x", "m", "p", "m", "e", "t", "a", ">">>

\* the 12 of content[xmp_start:xmp_end + 12], line 151
SpanExtra == 12

\* bytes.find: the index, from 0, of the first occurrence, or -1
Find(s, sub) ==
    LET
        Least(S) == CHOOSE x \in S : \A y \in S : x <= y
    IN
    LET hits == {n \in 0 .. (Len(s) - Len(sub)) : SubSeq(s, n + 1, n + Len(sub)) = sub}
    IN IF hits = {} THEN 0 - 1 ELSE Least(hits)

\* one character for each element a packet may hold: "K" a dc:subject bag with
\* the keyword 'a', "L" a photoshop:City 'S', "3" an xmp:Rating of 3, "?" an
\* xmp:Rating whose text is no number
ElementCodes == {"K", "L", "3", "?"}

\* ET.fromstring, line 154: the elements of a well-formed packet, or a ParseError
ParseXmpPacket(packet) ==
    LET head == OpenTag \o <<">">>
        inner == SubSeq(packet, Len(head) + 1, Len(packet) - Len(CloseTag))
    IN IF /\ Len(packet) >= Len(head) + Len(CloseTag)
          /\ StartsWith(packet, head)
          /\ EndsWith(packet, CloseTag)
          /\ \A n \in 1 .. Len(inner) : inner[n] \in ElementCodes
         THEN [ok |-> TRUE, elements |-> inner]
         ELSE [ok |-> FALSE, elements |-> <<>>]

\* lines 164-258: the dict built from the parsed packet
XmpFields(elements) ==
    LET Has(c) == \E n \in 1 .. Len(elements) : elements[n] = c
        ratings == SelectSeq(elements, LAMBDA c : c \in {"3", "?"})
        k == IF Has("K") THEN [x \in {"keywords"} |-> <<<<"a">>>>] ELSE <<>>
        l == IF Has("L")
               THEN [x \in {"location"} |->
                       [sublocation |-> None, city |-> Some(<<"S">>), state |-> None,
                        country |-> None]]
               ELSE <<>>
        r == IF ratings # <<>> /\ ParseInt(<<ratings[1]>>).ok
               THEN [x \in {"rating"} |-> ParseInt(<<ratings[1]>>).val]
               ELSE <<>>
    IN k @@ l @@ r

\* _read_xmp_from_jpg, lines 129-261: the span it cut out and what it returns
\* (the empty dict for None)
ReadXmpFromJpg(bytes) ==
    LET
        \* s[from:to] for indexes that are not negative
        Slice(s, from, to) == SubSeq(s, from + 1, IF to < Len(s) THEN to ELSE Len(s))
    IN
    LET xmp_start == Find(bytes, OpenTag)
        xmp_end == Find(bytes, CloseTag)
    IN IF xmp_start = 0 - 1 \/ xmp_end = 0 - 1
         THEN [packet |-> [found |-> FALSE, text |-> <<>>], fields |-> <<>>]
         ELSE LET span == Slice(bytes, xmp_start, xmp_end + SpanExtra)
                  parsed == ParseXmpPacket(span)
              IN [packet |-> [found |-> TRUE, text |-> span],
                  fields |-> IF parsed.ok THEN XmpFields(parsed.elements) ELSE <<>>]

RECURSIVE DecimalString(_)
\* str(n) for n >= 0
DecimalString(n) ==
    IF n < 10 THEN <<Digits[n + 1]>>
    ELSE DecimalString(n \div 10) \o <<Digits[(n % 10) + 1]>>

\* f"{val:.2f}" for num/den >= 0 with at most two decimals
TwoDecimals(num, den) ==
    LET hundredths == (100 * num) \div den
    IN DecimalString(hundredths \div 100) \o <<".">>
         \o <<Digits[((hundredths \div 10) % 10) + 1], Digits[(hundredths % 10) + 1]>>

\* process_tags, lines 291-341, for one tag: the dict afterwards, or that an
\* exception left the loop
ProcessTag(data, entry) ==
    LET
        \* round(num / den, 1), in tenths, for num/den with at most one decimal
        Tenths(num, den) == (10 * num) \div den
    IN
    LET Set(k, v) == [raised |-> FALSE, data |-> [x \in {k} |-> v] @@ data]
        \* the value of a tag that is stored as it comes
        kept == IF entry.kind = "str" THEN entry.text ELSE <<entry.num, entry.den>>
        Raise == [raised |-> TRUE, data |-> data]
        Skip == [raised |-> FALSE, data |-> data]
    IN IF entry.tag \in {"DateTime", "DateTimeOriginal"} /\ "date" \notin DOMAIN data
         THEN Set("date", kept)
       ELSE IF entry.tag = "Make"
         THEN Set("camera_make", IF entry.kind = "str" THEN Strip(entry.text) ELSE kept)
       ELSE IF entry.tag = "Model"
         THEN Set("camera_model", IF entry.kind = "str" THEN Strip(entry.text) ELSE kept)
       ELSE IF entry.tag = "LensModel"
         THEN Set("lens_model", IF entry.kind = "str" THEN Strip(entry.text) ELSE kept)
       ELSE IF entry.tag \in {"FocalLength", "FNumber"}
         THEN LET k == IF entry.tag = "FocalLength" THEN "focal_length" ELSE "aperture"
              IN IF entry.kind = "tuple"
                   THEN Set(k, IF entry.den # 0 THEN Tenths(entry.num, entry.den)
                               ELSE 10 * entry.num)
                 ELSE IF entry.kind = "num" THEN Set(k, Tenths(entry.num, entry.den))
                 ELSE IF ParseInt(entry.text).ok
                   THEN Set(k, 10 * ParseInt(entry.text).val)
                 ELSE Raise
       ELSE IF entry.tag = "ExposureTime"
         THEN IF entry.kind = "tuple"
                THEN (IF entry.num = 1
                        THEN Set("shutter_speed", <<"1", "/">> \o DecimalString(entry.den))
                      ELSE IF entry.den # 0
                        THEN Set("shutter_speed", TwoDecimals(entry.num, entry.den))
                      ELSE Set("shutter_speed", DecimalString(entry.num)))
              ELSE IF entry.kind = "num"
                THEN (IF entry.num >= entry.den
                        THEN Set("shutter_speed", TwoDecimals(entry.num, entry.den))
                      ELSE IF entry.num = 0 THEN Raise
                      ELSE Set("shutter_speed",
                               <<"1", "/">> \o DecimalString(entry.den \div entry.num)))
              ELSE Raise
       ELSE IF entry.tag \in {"ISOSpeedRatings", "ISO"}
         THEN IF entry.kind = "num" THEN Set("iso", entry.num \div entry.den)
              ELSE IF entry.kind = "str" /\ ParseInt(entry.text).ok
                THEN Set("iso", ParseInt(entry.text).val)
              ELSE Raise
       ELSE Skip

RECURSIVE ProcessTags(_, _)
\* process_tags, lines 289-341: the tags in order, up to the first exception
ProcessTags(data, tags) ==
    IF tags = <<>> THEN [raised |-> FALSE, data |-> data]
    ELSE LET one == ProcessTag(data, Head(tags))
         IN IF one.raised THEN one ELSE ProcessTags(one.data, Tail(tags))

\* _read_exif_data, lines 264-353: one try around both calls of process_tags
ReadExifData(main_tags, ifd_tags) ==
    IF main_tags = <<>> /\ ifd_tags = <<>> THEN <<>>
    ELSE LET first == ProcessTags(<<>>, main_tags)
         IN IF first.raised \/ ifd_tags = <<>> THEN first.data
            ELSE ProcessTags(first.data, ifd_tags).data

\* get_metadata, lines 392-420: the fields of PhotoMetadata
GetMetadataWithCamera(xmp, exif) ==
    LET
        \* exif_data.get(key), lines 411-418
        ExifGet(data, k) == IF k \in DOMAIN data THEN Some(data[k]) ELSE None
    IN
    GetMetadata(xmp, exif)
      @@ [camera_make |-> ExifGet(exif, "camera_make"),
          camera_model |-> ExifGet(exif, "camera_model"),
          lens_model |-> ExifGet(exif, "lens_model"),
          focal_length |-> ExifGet(exif, "focal_length"),
          aperture |-> ExifGet(exif, "aperture"),
          shutter_speed |-> ExifGet(exif, "shutter_speed"),
          iso |-> ExifGet(exif, "iso")]

RECURSIVE Concat(_)
Concat(parts) == IF parts = <<>> THEN <<>> ELSE Head(parts) \o Concat(Tail(parts))

\* get_metadata, line 393
ReadXmp ==
    /\ xpc = "start"
    /\ LET call == ReadXmpFromJpg(content)
       IN /\ xmp_packet' = call.packet
          /\ xmp_data' = call.fields
    /\ xpc' = "xmp"
    /\ UNCHANGED <<exif_data, metadata>>
    /\ UNCHANGED <<content, exif_main, exif_ifd, filters, result, mpc>>
    /\ UNCHANGED <<syncVars, ingestVars, collectionVars, curateVars, listVars>>

\* get_metadata, line 409
ReadExif ==
    /\ xpc = "xmp"
    /\ exif_data' = ReadExifData(exif_main, exif_ifd)
    /\ xpc' = "exif"
    /\ UNCHANGED <<xmp_packet, xmp_data, metadata>>
    /\ UNCHANGED <<content, exif_main, exif_ifd, filters, result, mpc>>
    /\ UNCHANGED <<syncVars, ingestVars, collectionVars, curateVars, listVars>>

\* get_metadata, lines 394-420
FillMetadata ==
    /\ xpc = "exif"
    /\ metadata' = GetMetadataWithCamera(xmp_data, exif_data)
    /\ xpc' = "done"
    /\ UNCHANGED <<xmp_packet, xmp_data, exif_data>>
    /\ UNCHANGED <<content, exif_main, exif_ifd, filters, result, mpc>>
    /\ UNCHANGED <<syncVars, ingestVars, collectionVars, curateVars, listVars>>

ParseNext ==
    \/ ReadXmp
    \/ ReadExif
    \/ FillMetadata

\* an existing file: any bytes around the packet, or any EXIF tags
InitParse ==
    LET
        ContentInputs ==
            LET
                \* the pieces a file's bytes are made of here
                Pieces == {OpenTag \o <<">">>, CloseTag} \cup {<<c>> : c \in ElementCodes}
            IN
            {Concat(l) : l \in UNION {[1 .. m -> Pieces] : m \in 0 .. MaxPieces}}
        TupleValue(tag, num, den) == [tag |-> tag, kind |-> "tuple", text |-> <<>>, num |-> num, den |-> den]
        NumValue(tag, num, den) == [tag |-> tag, kind |-> "num", text |-> <<>>, num |-> num, den |-> den]
        \* a tag's value as Pillow hands it over: a string, a number (IFDRational,
        \* int or float) or a tuple of two numbers
        StrValue(tag, text) == [tag |-> tag, kind |-> "str", text |-> text, num |-> 0, den |-> 1]
        \* a dict has each tag once
        ExifIfdInputs ==
            LET
                \* the tags the EXIF IFD may hold, well-formed or not
                ExifTagInputs ==
                    {NumValue("ExposureTime", 1, 2), NumValue("ExposureTime", 0, 1),
                     NumValue("ISOSpeedRatings", 2, 1), TupleValue("ISOSpeedRatings", 2, 2),
                     StrValue("DateTimeOriginal", <<"2", "1">>),
                     NumValue("FocalLength", 5, 1), StrValue("FocalLength", <<"x">>),
                     TupleValue("FNumber", 1, 2), StrValue("LensModel", <<"b", " ">>)}
            IN
            {l \in UNION {[1 .. m -> ExifTagInputs] : m \in 0 .. MaxTags} :
                \A m, n \in 1 .. Len(l) : l[m].tag = l[n].tag => m = n}
        \* the tags of the main IFD
        ExifMainInputs ==
            {<<>>,
             <<StrValue("Make", <<" ", "a">>)>>,
             <<StrValue("DateTime", <<"2", "0", ":", "1">>), StrValue("Model", <<"b">>)>>,
             <<StrValue("Make", <<"a">>), NumValue("ExposureTime", 0, 1)>>}
        \* a file with one well-formed packet
        PlainContent == OpenTag \o <<">", "K", "L", "3">> \o CloseTag
    IN
    /\ SyncIdle
    /\ IngestIdle
    /\ CollectionIdle
    /\ CurateIdle
    /\ ListIdle
    /\ \/ /\ content \in ContentInputs
          /\ exif_main = <<StrValue("Make", <<" ", "a">>)>>
          /\ exif_ifd = <<>>
       \/ /\ content \in {PlainContent, OpenTag \o <<">", "K", "?">> \o CloseTag}
          /\ exif_main \in ExifMainInputs
          /\ exif_ifd \in ExifIfdInputs
    /\ xmp_packet = [found |-> FALSE, text |-> <<>>]
    /\ xpc = "start"
    /\ xmp_data = <<>>
    /\ exif_data = <<>>
    /\ filters = [given |-> FALSE, map |-> <<>>]
    /\ metadata = <<>>
    /\ result = "none"
    /\ mpc = "idle"

SpecParse == InitParse /\ [][ParseNext]_vars

(***************************************************************************)
(* Listing the bucket page by page: sync_to_r2.py, list_r2_objects.        *)
(***************************************************************************)
\* the most keys a page holds (1000 in the code, line 87)
MaxKeys == 2

\* the keys list_objects_v2 has to serve, in the order it serves them
Listed == SortedKeys({k \in DOMAIN remote : StartsWith(k, prefix)})

\* how many of them the pages before this request held
Served == IF continuation_token.some THEN continuation_token.val ELSE 0

ContentsWithoutLast(n) ==
    [m \in 1 .. (n - 1) |->
        [key |-> Listed[Served + m], Size |-> remote[Listed[Served + m]].Size,
         LastModified |-> remote[Listed[Served + m]].LastModified]]

\* response['Contents']: the next n keys with their metadata
Contents(n) ==
    [m \in 1 .. n |->
        [key |-> Listed[Served + m], Size |-> remote[Listed[Served + m]].Size,
         LastModified |-> remote[Listed[Served + m]].LastModified]]

RECURSIVE StorePage(_, _)
\* lines 98-103: objects[obj['Key']] = {...} for each object of the page
StorePage(dict, page) ==
    IF page = <<>> THEN dict
    ELSE LET obj == Head(page)
             at == {n \in 1 .. Len(dict) : dict[n].key = obj.key}
         IN StorePage(IF at = {} THEN Append(dict, obj)
                      ELSE [dict EXCEPT ![CHOOSE n \in at : TRUE] = obj],
                      Tail(page))

\* lines 81-82
ListCall ==
    /\ lpc = "called"
    /\ objects' = <<>>
    /\ continuation_token' = None
    /\ lpc' = "listing"
    /\ UNCHANGED requests
    /\ UNCHANGED <<syncVars, matchVars, ingestVars, collectionVars, curateVars, parseVars>>

\* one turn of the loop, lines 84-108: the store answers with a page of at
\* least one and at most MaxKeys of the keys left, truncated if keys remain
ListPage ==
    /\ lpc = "listing"
    /\ requests' = Append(requests, continuation_token)
    /\ LET left == Len(Listed) - Served
       IN \E n \in (IF left = 0 THEN {0}
                    ELSE 1 .. (IF left < MaxKeys THEN left ELSE MaxKeys)) :
             /\ objects' = IF n > 0 THEN StorePage(objects, Contents(n)) ELSE objects
             /\ IF n < left
                  THEN /\ continuation_token' = Some(Served + n)
                       /\ UNCHANGED lpc
                  ELSE /\ lpc' = "returned"
                       /\ UNCHANGED continuation_token
    /\ UNCHANGED <<syncVars, matchVars, ingestVars, collectionVars, curateVars, parseVars>>

\* line 96: list_objects_v2 raises, and list_r2_objects with it
ListFails ==
    /\ lpc = "listing"
    /\ requests' = Append(requests, continuation_token)
    /\ lpc' = "raised"
    /\ UNCHANGED <<continuation_token, objects>>
    /\ UNCHANGED <<syncVars, matchVars, ingestVars, collectionVars, curateVars, parseVars>>

ListNext ==
    \/ ListCall
    \/ ListPage
    \/ ListFails

\* main has normalised the prefix and calls list_r2_objects on any bucket
InitList ==
    /\ r2_prefix \in Prefixes
    /\ remote \in Buckets(r2_prefix)
    /\ localTree = <<>>
    /\ dirExists = FALSE
    /\ pc = "idle"
    /\ local_files = <<>>
    /\ r2_objects = <<>>
    /\ to_upload = <<>>
    /\ to_delete = <<>>
    /\ idx = 0
    /\ uploaded = 0
    /\ deleted = 0
    /\ log = <<>>
    /\ exit_code = -1
    /\ continuation_token = None
    /\ objects = <<>>
    /\ requests = <<>>
    /\ lpc = "called"
    /\ MatchIdle
    /\ IngestIdle
    /\ CollectionIdle
    /\ CurateIdle
    /\ ParseIdle

SpecList == InitList /\ [][ListNext]_vars

(***************************************************************************)
(* Properties of the filter matcher.                                       *)
(***************************************************************************)
\* C9 (as claimed): with a filter spec that holds none of the keys keywords,
\* location, rating, date (None, an empty mapping, or a mapping of other keys
\* only), matches_filters returns False.
C9_NoRecognizedKeyNeverMatches ==
    (mpc = "matched"
        /\ DOMAIN filters.map \cap {"keywords", "location", "rating", "date"} = {})
    => result = "False"

\* the terms of a keywords filter value, read off the value itself: each
\* stretch between commas (or the ends), without the spaces around it, in
\* lowercase
ExpectedTerms(v) ==
    LET IsCut(n) == n = 0 \/ n = Len(v) + 1 \/ v[n] = ","
        Small(c) == IF c = "B" THEN "b" ELSE c
    IN {[n \in 1 .. (hi - lo + 1) |-> Small(v[lo + n - 1])] :
          <<lo, hi>> \in
            {w \in (1 .. Len(v) + 1) \X (0 .. Len(v)) :
                /\ w[1] <= w[2] + 1
                /\ \E from \in 1 .. w[1], to \in w[2] .. Len(v) :
                    /\ IsCut(from - 1) /\ IsCut(to + 1)
                    /\ \A n \in from .. to : v[n] # ","
                    /\ \A n \in from .. (w[1] - 1) : v[n] = " "
                    /\ \A n \in (w[2] + 1) .. to : v[n] = " "
                    /\ IF w[1] <= w[2]
                         THEN v[w[1]] # " " /\ v[w[2]] # " "
                         ELSE \A n \in from .. to : v[n] = " "}}

\* C10: with a filter spec whose only key is keywords, matches_filters
\* returns True iff a keyword of the record is one of the filter's terms (the
\* value split on commas, each term trimmed and lowercased), and False in
\* every other case; a record without keywords never matches.
C10_KeywordsIntersect ==
    (mpc = "matched" /\ filters.given /\ DOMAIN filters.map = {"keywords"}) =>
        /\ result \in {"True", "False"}
        /\ result = "True" <=>
              Range(metadata.keywords) \cap ExpectedTerms(filters.map.keywords) # {}
        /\ metadata.keywords = <<>> => result = "False"

\* a match through an uppercase term with a space before it, after a comma
C10_Witness ==
    /\ mpc = "matched" /\ filters.given /\ DOMAIN filters.map = {"keywords"}
    /\ filters.map.keywords = <<",", " ", "B">>
    /\ metadata.keywords = <<<<"a">>, <<"b">>>>
    /\ "keywords" \in DOMAIN xmp_data /\ xmp_data.keywords = <<<<"a">>, <<"B">>>>
    /\ result = "True"

\* the number a run of decimal digits writes, read off the digits
NumberOf(ds) ==
    LET Worth(c) == CASE c = "0" -> 0 [] c = "2" -> 2 [] OTHER -> 0
        RECURSIVE Pow10(_)
        Pow10(n) == IF n = 0 THEN 1 ELSE 10 * Pow10(n - 1)
        RECURSIVE Sum(_)
        Sum(n) == IF n = 0 THEN 0 ELSE Sum(n - 1) + Worth(ds[n]) * Pow10(Len(ds) - n)
    IN Sum(Len(ds))

IsNumber(ds) == ds # <<>> /\ \A n \in 1 .. Len(ds) : ds[n] \in {"0", "2"}

\* the two shapes of a rating filter value: N and N+
IsExactRating(v) == IsNumber(v)
IsMinRating(v) == Len(v) >= 2 /\ v[Len(v)] = "+" /\ IsNumber(SubSeq(v, 1, Len(v) - 1))
MinOf(v) == NumberOf(SubSeq(v, 1, Len(v) - 1))

\* C11: with a filter spec that has a rating key, a record whose rating is
\* absent or zero is rejected; a record with a rating matches a rating-only
\* spec "N+" iff its rating is at least N, and a rating-only spec "N" iff its
\* rating equals N.
C11_RatingFilter ==
    (mpc = "matched" /\ filters.given /\ "rating" \in DOMAIN filters.map) =>
        LET v == filters.map.rating
            r == metadata.rating
            alone == DOMAIN filters.map = {"rating"}
        IN /\ (~r.some \/ r.val = 0) => result = "False"
           /\ (alone /\ r.some /\ r.val # 0 /\ IsMinRating(v)) =>
                 /\ result \in {"True", "False"}
                 /\ result = "True" <=> r.val >= MinOf(v)
           /\ (alone /\ r.some /\ r.val # 0 /\ IsExactRating(v)) =>
                 /\ result \in {"True", "False"}
                 /\ result = "True" <=> r.val = NumberOf(v)

\* rating 2 passes "2+" at the boundary
C11_Witness ==
    /\ mpc = "matched" /\ filters.given /\ DOMAIN filters.map = {"rating"}
    /\ filters.map.rating = <<"2", "+">>
    /\ metadata.rating = Some(2)
    /\ "rating" \in DOMAIN xmp_data /\ xmp_data.rating = 2
    /\ result = "True"

\* the state after matching a record against a rating-only spec "N+"
MatchedMinRating ==
    /\ mpc = "matched" /\ filters.given /\ DOMAIN filters.map = {"rating"}
    /\ IsMinRating(filters.map.rating)

\* the record also matches every spec "N'+" with N' at most the N of the
\* spec it was matched against
MatchesEveryLowerMin ==
    \A m \in RatingOnlyMaps :
        (IsMinRating(m.rating) /\ MinOf(m.rating) <= MinOf(filters.map.rating)) =>
            MatchesFilters(metadata, [given |-> TRUE, map |-> m]) = "True"

\* C12 (as claimed): for a rating spec "N+" and a record with a rating r,
\* r >= N implies a match, and a match implies a match for every N' <= N.
C12_MinRatingMonotonic ==
    MatchedMinRating =>
        /\ (metadata.rating.some /\ metadata.rating.val >= MinOf(filters.map.rating))
              => result = "True"
        /\ result = "True" => MatchesEveryLowerMin

\* C12 (amended): the same for a record whose rating is not zero.
C12_MinRatingMonotonicNonZero ==
    MatchedMinRating =>
        /\ (metadata.rating.some /\ metadata.rating.val # 0
               /\ metadata.rating.val >= MinOf(filters.map.rating))
              => result = "True"
        /\ result = "True" => MatchesEveryLowerMin

\* rating 3 matched against "2+", with "0+" and "2+" among the lower specs
C12_Witness ==
    /\ MatchedMinRating
    /\ filters.map.rating = <<"2", "+">>
    /\ metadata.rating = Some(3)
    /\ result = "True"
    /\ MatchesFilters(metadata, [given |-> TRUE, map |-> [rating |-> <<"0", "+">>]]) = "True"

\* the per-key predicates, read off the record and the filter value
KeywordsHold(md, v) == Range(md.keywords) \cap ExpectedTerms(v) # {}

LocationHolds(md, v) ==
    LET Small(c) == IF c = "S" THEN "s" ELSE IF c = "B" THEN "b" ELSE c
        Folded(t) == [n \in 1 .. Len(t) |-> Small(t[n])]
    IN /\ md.location.some
       /\ \E k \in {"sublocation", "city", "state", "country"} :
             /\ md.location.val[k].some
             /\ md.location.val[k].val # <<>>
             /\ Folded(md.location.val[k].val) = Folded(v)

RatingHolds(md, v) ==
    /\ md.rating.some
    /\ md.rating.val # 0
    /\ IF IsMinRating(v) THEN md.rating.val >= MinOf(v) ELSE md.rating.val = NumberOf(v)

DateHolds(md, v) ==
    /\ md.date.some
    /\ Len(md.date.val) >= Len(v)
    /\ \A n \in 1 .. Len(v) : md.date.val[n] = v[n]

\* C13: with a filter spec that has at least one of the keys keywords,
\* location, rating, date (a rating value being N or N+), matches_filters
\* returns True iff the predicate of every key present holds, whatever other
\* keys the spec has; keys that are absent impose nothing.
C13_Conjunction ==
    LET f == filters.map
        keys == DOMAIN f
    IN (/\ mpc = "matched" /\ filters.given
        /\ keys \cap {"keywords", "location", "rating", "date"} # {}
        /\ "rating" \in keys => (IsExactRating(f.rating) \/ IsMinRating(f.rating)))
       => /\ result \in {"True", "False"}
          /\ result = "True" <=>
                /\ "keywords" \in keys => KeywordsHold(metadata, f.keywords)
                /\ "location" \in keys => LocationHolds(metadata, f.location)
                /\ "rating" \in keys => RatingHolds(metadata, f.rating)
                /\ "date" \in keys => DateHolds(metadata, f.date)

\* all four keys present and passing, next to a key the matcher ignores
C13_Witness ==
    /\ mpc = "matched" /\ filters.given
    /\ DOMAIN filters.map = {"keywords", "location", "rating", "date", "other"}
    /\ filters.map.keywords = <<"x", ",", "b">>
    /\ filters.map.location = <<"S", "S">>
    /\ filters.map.rating = <<"2", "+">>
    /\ filters.map.date = <<"2", "0">>
    /\ metadata.rating = Some(3)
    /\ metadata.date = Some(<<"2", "0", ":", "1">>)
    /\ result = "True"

\* one failing key among passing ones rejects the record
C13_WitnessRejected ==
    /\ mpc = "matched" /\ filters.given
    /\ DOMAIN filters.map = {"keywords", "location", "date"}
    /\ KeywordsHold(metadata, filters.map.keywords)
    /\ LocationHolds(metadata, filters.map.location)
    /\ ~DateHolds(metadata, filters.map.date)
    /\ result = "False"

(***************************************************************************)
(* Properties of the ingester.                                             *)
(***************************************************************************)
\* the characters sanitize_location keeps as they are, once lowercased
IsKept(c) == c \in {"a", "b", "1", "_"}

\* the sanitized form, read off the argument: its letters, digits and
\* underscores in lowercase, with one hyphen wherever anything else stood
\* between two of them
RECURSIVE Hyphenated(_, _)
Hyphenated(v, gap) ==
    IF v = <<>> THEN <<>>
    ELSE LET c == IF Head(v) = "B" THEN "b" ELSE Head(v)
         IN IF IsKept(c)
              THEN (IF gap THEN <<"-">> ELSE <<>>) \o <<c>> \o Hyphenated(Tail(v), FALSE)
              ELSE Hyphenated(Tail(v), TRUE)

ExpectedSanitized(v) ==
    LET t == Hyphenated(v, FALSE)
        u == IF t # <<>> /\ Head(t) = "-" THEN Tail(t) ELSE t
    IN IF u = <<>> THEN None ELSE Some(u)

\* C14: sanitize_location returns None, or a non-empty string of lowercase
\* letters, digits, hyphens and underscores without a hyphen at either end and
\* without two hyphens in a row; the string is the argument in lowercase with
\* every other character replaced by a hyphen and the hyphens collapsed; an
\* argument that reduces to nothing gives None; sanitizing the result again
\* gives the result.
C14_Sanitized ==
    ipc = "returned" =>
        /\ sanitized.some =>
              LET r == sanitized.val
              IN /\ r # <<>>
                 /\ \A n \in 1 .. Len(r) : IsKept(r[n]) \/ r[n] = "-"
                 /\ r[1] # "-" /\ r[Len(r)] # "-"
                 /\ \A n \in 1 .. Len(r) - 1 : ~(r[n] = "-" /\ r[n + 1] = "-")
                 /\ SanitizeLocation(sanitized) = sanitized
        /\ sanitized = IF location.some THEN ExpectedSanitized(location.val) ELSE None
        /\ (location.some /\ \A n \in 1 .. Len(location.val) : location.val[n] \in {" ", "!", "-"})
              => sanitized = None

\* "B! a" becomes "b-a"
C14_Witness ==
    /\ ipc = "returned"
    /\ location = Some(<<"B", "!", " ", "a">>)
    /\ sanitized = Some(<<"b", "-", "a">>)

\* the year directory, read off the date: its first four characters when
\* they are digits and the date ends there or goes on with ":" or "-"
ExpectedYear ==
    LET d == IF "date" \in DOMAIN exif_data THEN exif_data.date ELSE <<>>
    IN IF /\ Len(d) >= 4
          /\ \A n \in 1 .. 4 : d[n] = "2"
          /\ (Len(d) = 4 \/ d[5] \in {":", "-"})
         THEN SubSeq(d, 1, 4)
         ELSE UnknownYear

\* a field of the photo's XMP location, None when there is no location
XmpField(k) == IF "location" \in DOMAIN xmp_data THEN xmp_data.location[k] ELSE None

\* the segment a field gives: its sanitized form, if the field is set
SegmentOf(k) == IF XmpField(k).some THEN <<ExpectedSanitized(XmpField(k).val)>> ELSE <<>>

\* a field that is set and sanitizes to nothing
SanitizesToNothing(k) == XmpField(k).some /\ ExpectedSanitized(XmpField(k).val) = None

C15_WitnessUnknown ==
    /\ ipc = "ingested"
    /\ XmpField("state") = None /\ XmpField("city") = None /\ XmpField("country").some
    /\ ingested.dest_path.some
    /\ ingested.dest_path.val[2] = UnknownLocation
    /\ ingested.dest_path.val[1] = UnknownYear

\* C16 (as claimed): when state or city is set but sanitizes to nothing, the
\* field counts as absent: ingest_photo returns a result, and the destination
\* it resolves has the segments of the remaining fields only, or
\* "unknown-location" when none remains.
C16_EmptySegmentIsAbsent ==
    (/\ ipc = "ingested" /\ photo_exists
     /\ (SanitizesToNothing("state") \/ SanitizesToNothing("city")))
    => LET segments == SelectSeq(SegmentOf("state") \o SegmentOf("city"), LAMBDA o : o.some)
       IN /\ ingested.raised = "none"
          /\ (dry_run \/ ~move_fails) =>
                ingested.dest_path =
                    Some(<<ExpectedYear>>
                           \o (IF segments = <<>> THEN <<UnknownLocation>>
                               ELSE [n \in 1 .. Len(segments) |-> segments[n].val])
                           \o <<PhotoName>>)

(***************************************************************************)
(* Properties of the filter-based collection sync.                         *)
(***************************************************************************)
\* the collection files sync_single_collection has returned for
Handled == 1 .. Len(returned)

\* a filters key that is missing, null or the empty mapping
WithoutFilters(c) == ~c.filters.some \/ ~c.filters.val.given \/ DOMAIN c.filters.val.map = {}

\* C17: for a collection whose filters key is absent or empty,
\* sync_single_collection returns False and leaves the file (photos,
\* cover_path and all) as it was; under --all the call counts as skipped, not
\* as synced.
C17_ManualCollectionSkipped ==
    /\ \A k \in Handled :
          WithoutFilters(original_files[k]) =>
              /\ returned[k] = "False"
              /\ collection_files[k] = original_files[k]
    /\ \A k \in 1 .. Len(collection_files) :
          (k \notin Handled /\ cpc # "sync") => collection_files[k] = original_files[k]
    /\ args_all =>
          /\ skipped_count = Cardinality({k \in Handled : WithoutFilters(original_files[k])})
          /\ synced_count = Cardinality({k \in Handled : ~WithoutFilters(original_files[k])})
    /\ ~args_all => skipped_count = 0 /\ synced_count = 0

\* --all over a synced collection and a manual one that had members
C17_Witness ==
    /\ cpc = "done" /\ args_all
    /\ Len(collection_files) = 2
    /\ returned = <<"False", "True">>
    /\ original_files[1].filters = Some([given |-> TRUE, map |-> <<>>])
    /\ original_files[1].photos # <<>>
    /\ original_files[1].cover_path = Some(PhotoGone)
    /\ PhotoA \in DOMAIN photos_tree
    /\ skipped_count = 1 /\ synced_count = 1

\* C18 (as claimed): after a sync no member path of a collection lies under
\* exports/, even when a JPEG in exports/ matches the filters.
C18_ExportsExcluded ==
    \A k \in Handled :
        returned[k] = "True" =>
            \A n \in 1 .. Len(collection_files[k].photos) :
                ~StartsWith(collection_files[k].photos[n].path,
                            <<"e", "x", "p", "o", "r", "t", "s", "/">>)

\* a path that ends in one of the JPEG extensions
IsJpegPath(p) ==
    \E ext \in {<<".", "j", "p", "g">>, <<".", "j", "p", "e", "g">>, <<".", "J", "P", "G">>,
                <<".", "J", "P", "E", "G">>} :
        Len(p) > Len(ext) /\ SubSeq(p, Len(p) - Len(ext) + 1, Len(p)) = ext

\* the photos under photos/ that a filter mapping selects: the JPEGs for
\* which the predicate of every recognized key of the mapping holds
Selected(f) ==
    {p \in DOMAIN photos_tree :
        /\ IsJpegPath(p)
        /\ LET md == GetMetadata(photos_tree[p].xmp, photos_tree[p].exif)
           IN /\ "keywords" \in DOMAIN f => KeywordsHold(md, f.keywords)
              /\ "location" \in DOMAIN f => LocationHolds(md, f.location)
              /\ "rating" \in DOMAIN f => RatingHolds(md, f.rating)
              /\ "date" \in DOMAIN f => DateHolds(md, f.date)}

\* the collections a filter-based sync went through
Synced == {k \in Handled : returned[k] = "True"}

\* C19: after a filter-based sync of a collection with non-empty filters, the
\* photos list has exactly one entry {path, caption: '', alt: ''} per JPEG of
\* the scanned tree that matches the filters, in ascending order of the
\* paths, whatever the list was before.
C19_PhotosRecomputed ==
    \A k \in Handled :
        ~WithoutFilters(original_files[k]) =>
            LET photos == collection_files[k].photos
            IN /\ returned[k] = "True"
               /\ \A n \in 1 .. Len(photos) :
                     photos[n] = [path |-> photos[n].path, caption |-> <<>>, alt |-> <<>>]
               /\ {photos[n].path : n \in 1 .. Len(photos)}
                     = Selected(original_files[k].filters.val.map)
               /\ \A n \in 1 .. Len(photos) - 1 : LexLess(photos[n].path, photos[n + 1].path)

\* four matches in code-point order, replacing a list that held a photo no
\* longer there, with its caption
C19_Witness ==
    /\ cpc = "done"
    /\ original_files[1].filters = Some([given |-> TRUE, map |-> [keywords |-> <<"a">>]])
    /\ original_files[1].photos = <<[path |-> PhotoGone, caption |-> <<"c">>, alt |-> <<"t">>]>>
    /\ PhotoPng \in DOMAIN photos_tree
    /\ collection_files[1].photos =
          <<[path |-> PhotoB, caption |-> <<>>, alt |-> <<>>],
            [path |-> PhotoA, caption |-> <<>>, alt |-> <<>>],
            [path |-> PhotoSub, caption |-> <<>>, alt |-> <<>>],
            [path |-> PhotoExport, caption |-> <<>>, alt |-> <<>>]>>

\* the cover a collection had: None for a missing key and for ''
HadCover(k) ==
    original_files[k].cover_path.some /\ original_files[k].cover_path.val # <<>>

\* C20: after a filter-based sync, a collection that had no cover and has
\* matches has the first match in sorted order as its cover; a collection
\* without matches has the cover ''; a collection that had a cover and has
\* matches keeps that cover, whether or not it is among the matches.
C20_CoverPolicy ==
    \A k \in Synced :
        LET matches == Selected(original_files[k].filters.val.map)
            cover == collection_files[k].cover_path
        IN /\ (~HadCover(k) /\ matches # {}) =>
                 /\ cover.some /\ cover.val \in matches
                 /\ \A p \in matches \ {cover.val} : LexLess(cover.val, p)
           /\ matches = {} => cover = Some(<<>>)
           /\ (HadCover(k) /\ matches # {}) => cover = original_files[k].cover_path

\* a cover that is not among the matches stays
C20_Witness ==
    /\ cpc = "done"
    /\ 1 \in Synced
    /\ original_files[1].cover_path = Some(PhotoGone)
    /\ Selected(original_files[1].filters.val.map) = {PhotoA, PhotoB}
    /\ collection_files[1].cover_path = Some(PhotoGone)

\* no cover before: B.JPG, which sorts before a.jpg
C20_WitnessFirst ==
    /\ cpc = "done"
    /\ 1 \in Synced
    /\ original_files[1].cover_path = None
    /\ Selected(original_files[1].filters.val.map) = {PhotoA, PhotoB}
    /\ collection_files[1].cover_path = Some(PhotoB)

(***************************************************************************)
(* Properties of curating a collection.                                    *)
(***************************************************************************)
\* the last step was a call of add_photo_to_collection / add_photo_to_portfolio
Added == step.op = "add" /\ step.returned \in {"True", "False"}

\* C21: add(collection, path) returns True and appends exactly one entry
\* {path, '', ''} at the end when no member has that path; when a member has
\* it, add returns False and leaves the photos list and the cover as they
\* were.
C21_AddOnceOnly ==
    Added =>
        LET had == \E n \in 1 .. Len(before.photos) : before.photos[n].path = step.path
        IN /\ ~had =>
                /\ step.returned = "True"
                /\ loaded.photos =
                      before.photos \o <<[path |-> step.path, caption |-> <<>>, alt |-> <<>>]>>
           /\ had =>
                /\ step.returned = "False"
                /\ loaded.photos = before.photos
                /\ loaded.cover_path = before.cover_path

\* the same path twice on one command line: the second is rejected
C21_Witness ==
    /\ Added
    /\ step.returned = "False"
    /\ step.path = PhotoA
    /\ loaded.photos = <<[path |-> PhotoA, caption |-> <<>>, alt |-> <<>>]>>
    /\ kpc = "add_to_portfolio"

\* C22: over any sequence of adds, the first photo added while the collection
\* has no members becomes the cover, and every other add, successful or
\* duplicate, leaves cover_path unchanged.
C22_FirstAddSetsCover ==
    Added =>
        IF before.photos = <<>>
          THEN loaded.cover_path = Some(step.path)
          ELSE loaded.cover_path = before.cover_path

\* a second photo was added and the cover is still the first one
C22_Witness ==
    /\ Added
    /\ step.returned = "True"
    /\ Len(loaded.photos) = 2
    /\ loaded.photos[1].path = PhotoSub
    /\ loaded.cover_path = Some(PhotoSub)
    /\ step.path = PhotoA

\* the cover was set by the first add into a collection without members
C22_WitnessFirst ==
    /\ Added
    /\ before.photos = <<>>
    /\ before.cover_path = Some(<<>>)
    /\ loaded.cover_path = Some(PhotoDirPng)
    /\ kpc = "add_to_collection"

NoTwoAlike(collection) ==
    \A m, n \in 1 .. Len(collection.photos) :
        collection.photos[m].path = collection.photos[n].path => m = n

\* C23: in every collection reachable from a newly created one by adds,
\* directory syncs and filter syncs, no two photos entries have the same path.
C23_PathsDistinct ==
    /\ NoTwoAlike(loaded)
    /\ \A n \in 1 .. Len(collection_files) : NoTwoAlike(collection_files[n])

\* a directory sync, then an add of a photo from elsewhere, then a filter sync
\* that keeps the two JPEG files
C23_Witness ==
    /\ step.op = "sync_collection"
    /\ step.returned = "True"
    /\ Len(before.photos) = 3
    /\ before.photos[1].path = PhotoDirPng
    /\ before.photos[3].path = PhotoA
    /\ Len(collection_files[1].photos) = 2

(***************************************************************************)
(* Properties of the directory sync.                                       *)
(***************************************************************************)
\* the last step was a run of add_photos that synced and saved
DirectorySynced == step.op = "add_photos" /\ step.returned # "exit"

\* the image files lying in the collection's directory
DirectoryImages == {PhotoSub, PhotoDirPng} \cap DOMAIN photos_tree

Fresh(p) == [path |-> p, caption |-> <<>>, alt |-> <<>>]

\* C24: after a directory sync the member paths are the image files listed in
\* the directory: the previous members whose file is still listed, in their
\* previous order with caption and alt unchanged, then a fresh entry per new
\* file in sorted filename order; the counts returned are the numbers of
\* entries appended and dropped.
C24_ListFollowsDirectory ==
    DirectorySynced =>
        LET remaining == SelectSeq(before.photos, LAMBDA photo : photo.path \in DirectoryImages)
            found == DirectoryImages \ MemberPaths(before)
            appended == (IF PhotoDirPng \in found THEN <<Fresh(PhotoDirPng)>> ELSE <<>>)
                          \o (IF PhotoSub \in found THEN <<Fresh(PhotoSub)>> ELSE <<>>)
        IN /\ MemberPaths(loaded) = DirectoryImages
           /\ loaded.photos = remaining \o appended
           /\ step.added_count = Len(appended)
           /\ step.removed_count = Len(before.photos) - Len(remaining)
           /\ collection_files = <<loaded>>

\* a captioned member stays first, one member is dropped, one file is new
C24_Witness ==
    /\ DirectorySynced
    /\ before.photos = <<[path |-> PhotoSub, caption |-> Caption, alt |-> Caption],
                         Fresh(PhotoA)>>
    /\ loaded.photos = <<[path |-> PhotoSub, caption |-> Caption, alt |-> Caption],
                         Fresh(PhotoDirPng)>>
    /\ step.added_count = 1
    /\ step.removed_count = 1
    /\ PhotoDirText \in DOMAIN photos_tree

\* both files of the directory are new: appended in sorted order
C24_WitnessSorted ==
    /\ DirectorySynced
    /\ before.photos = <<>>
    /\ loaded.photos = <<Fresh(PhotoDirPng), Fresh(PhotoSub)>>
    /\ step.added_count = 2

\* C25: the directory sync updates the cover whenever the existing cover was
\* removed or does not match the current member set: it becomes the first
\* remaining member, or empty when no member remains; a cover that is still
\* a current member is left unchanged.
C25_CoverFollowsMembers ==
    DirectorySynced =>
        IF before.cover_path \in {Some(p) : p \in MemberPaths(loaded)}
          THEN loaded.cover_path = before.cover_path
          ELSE loaded.cover_path = IF loaded.photos # <<>> THEN Some(loaded.photos[1].path)
                                   ELSE Some(<<>>)

\* what holds of the cover: the claim for a cover that is not empty, and an
\* empty cover stays empty
C25_NonEmptyCoverFollowsMembers ==
    DirectorySynced =>
        IF before.cover_path = Some(<<>>) \/ before.cover_path \in {Some(p) : p \in MemberPaths(loaded)}
          THEN loaded.cover_path = before.cover_path /\ ~step.cover_updated
          ELSE /\ loaded.cover_path = IF loaded.photos # <<>> THEN Some(loaded.photos[1].path)
                                      ELSE Some(<<>>)
               /\ step.cover_updated

\* the run started with no collection file: add_photos created the collection
FromNewCollection == original_files = <<>>

\* C29: after every directory sync, over any sequence of syncs as the
\* directory's contents change, cover_path is the path of a current member
\* whenever the member list is non-empty, and empty when the list is empty.
C29_CoverIsMember ==
    (FromNewCollection /\ DirectorySynced) =>
        IF loaded.photos = <<>>
          THEN loaded.cover_path = Some(<<>>)
          ELSE loaded.cover_path \in {Some(p) : p \in MemberPaths(loaded)}

\* C30: the directory sync is idempotent: a second run against an unchanged
\* listing leaves the collection as the first run left it and reports 0
\* added, 0 removed and no cover update.
C30_SecondRunChangesNothing ==
    (DirectorySynced /\ step.returned = "again") =>
        /\ loaded = before
        /\ collection_files = <<before>>
        /\ step.added_count = 0
        /\ step.removed_count = 0
        /\ ~step.cover_updated

\* the second run on a collection whose first run changed members and cover
C30_Witness ==
    /\ DirectorySynced
    /\ step.returned = "again"
    /\ original_files = <<[filters |-> None,
                           photos |-> <<[path |-> PhotoA, caption |-> Caption, alt |-> Caption],
                                        Fresh(PhotoSub)>>,
                           cover_path |-> Some(PhotoA)]>>
    /\ loaded.photos = <<Fresh(PhotoSub), Fresh(PhotoDirPng)>>
    /\ loaded.cover_path = Some(PhotoSub)

(***************************************************************************)
(* Properties of reading embedded metadata.                                *)
(***************************************************************************)
\* the PhotoMetadata field a tag feeds
FieldOf(tag) ==
    CASE tag \in {"DateTime", "DateTimeOriginal"} -> "date"
      [] tag = "Make" -> "camera_make"
      [] tag = "Model" -> "camera_model"
      [] tag = "LensModel" -> "lens_model"
      [] tag = "FocalLength" -> "focal_length"
      [] tag = "FNumber" -> "aperture"
      [] tag = "ExposureTime" -> "shutter_speed"
      [] tag \in {"ISOSpeedRatings", "ISO"} -> "iso"

\* the value of the tag can be converted
WellFormed(entry) == ~ProcessTag(<<>>, entry).raised

EmbeddedTags == exif_main \o exif_ifd

\* the elements of the packet between the first open tag and the close tag
\* after it, when that packet is well-formed
PacketElements ==
    LET parsed == ParseXmpPacket(xmp_packet.text)
    IN IF xmp_packet.found /\ parsed.ok THEN parsed.elements ELSE <<>>

\* C26: for an existing file get_metadata never raises on malformed embedded
\* metadata, and a value that cannot be parsed leaves only its own field
\* absent: every other well-formed field (keywords, location, rating; date,
\* make, model, lens, focal length, aperture, shutter speed, ISO) is populated.
C26_OnlyTheBadFieldIsAbsent ==
    xpc = "done" =>
        /\ \A n \in 1 .. Len(EmbeddedTags) :
              WellFormed(EmbeddedTags[n]) => metadata[FieldOf(EmbeddedTags[n].tag)].some
        /\ \A n \in 1 .. Len(PacketElements) :
              /\ PacketElements[n] = "K" => metadata.keywords # <<>>
              /\ PacketElements[n] = "L" => metadata.location.some
              /\ (PacketElements[n] = "3" /\ \A m \in 1 .. Len(PacketElements) :
                                                PacketElements[m] # "?")
                    => metadata.rating = Some(3)

\* what holds: the fields of the packet survive a rating that is no number,
\* and the tags read before the first one that fails are kept
C26_BadRatingOnlyLosesRating ==
    xpc = "done" =>
        \A n \in 1 .. Len(PacketElements) :
            /\ PacketElements[n] = "K" => metadata.keywords = <<<<"a">>>>
            /\ PacketElements[n] = "L" => metadata.location.some

\* C27: the XMP span runs from the first '<x:xmpmeta' to the first
\* '</x:xmpmeta>' located after that open tag, and XMP is unavailable only
\* when the open tag is missing or no close tag follows it: a close tag before
\* the open tag is not the one used.
C27_SpanEndsAtCloseAfterOpen ==
    xpc # "start" =>
        LET xmp_start == Find(content, OpenTag)
            closes == {n \in 0 .. (Len(content) - Len(CloseTag)) :
                          /\ xmp_start # 0 - 1
                          /\ n > xmp_start
                          /\ SubSeq(content, n + 1, n + Len(CloseTag)) = CloseTag}
        IN IF closes = {}
             THEN ~xmp_packet.found
             ELSE /\ xmp_packet.found
                  /\ xmp_packet.text =
                        SubSeq(content, xmp_start + 1,
                               (CHOOSE n \in closes : \A m \in closes : n <= m)
                                 + Len(CloseTag))

\* what holds: the span is cut when both tags occur anywhere, and it ends at
\* the first close tag of the file
C27_SpanEndsAtFirstClose ==
    xpc # "start" =>
        LET xmp_start == Find(content, OpenTag)
            xmp_end == Find(content, CloseTag)
        IN IF xmp_start = 0 - 1 \/ xmp_end = 0 - 1
             THEN ~xmp_packet.found
             ELSE /\ xmp_packet.found
                  /\ xmp_packet.text = SubSeq(content, xmp_start + 1, xmp_end + Len(CloseTag))

(***************************************************************************)
(* Properties of the paginated listing.                                    *)
(***************************************************************************)
\* every key of the bucket under the prefix, once, with its size and time,
\* and nothing else
ObjectsAreAllPages ==
    /\ \A k \in DOMAIN remote :
          StartsWith(k, prefix) =>
              \E n \in 1 .. Len(objects) :
                  objects[n] = [key |-> k, Size |-> remote[k].Size,
                                LastModified |-> remote[k].LastModified]
    /\ \A n \in 1 .. Len(objects) :
          objects[n].key \in DOMAIN remote /\ StartsWith(objects[n].key, prefix)
    /\ \A m, n \in 1 .. Len(objects) : objects[m].key = objects[n].key => m = n

\* the first request carries no token, every later one the token of the page
\* before it
TokensFollowed ==
    /\ requests # <<>>
    /\ requests[1] = None
    /\ \A n \in 2 .. Len(requests) :
          requests[n].some /\ (n > 2 => requests[n].val > requests[n - 1].val)

\* the loop cannot go on for ever: while it runs, every request made so far
\* was answered with at least one key not served before, and keys are left
\* for the next page, so there are at most as many requests as keys (one
\* request when there is no key)
PagesRunOut ==
    /\ Len(requests) <= Served
    /\ requests # <<>> => Served < Len(Listed)
    /\ Len(objects) = Served
    /\ Len(requests) <= Len(Listed)

\* C28: list_r2_objects returns exactly the objects of all pages, every key
\* with its size and last-modified, following the continuation tokens until
\* a page is not truncated, and it terminates whenever the store's page
\* sequence is finite.
C28_AllPagesListed ==
    /\ lpc = "returned" => (ObjectsAreAllPages /\ TokensFollowed)
    /\ lpc = "listing" => PagesRunOut

\* three keys came in three pages
C28_Witness ==
    /\ lpc = "returned"
    /\ Len(requests) = 3
    /\ Len(objects) = 3
    /\ r2_prefix = <<>>

====
